---- MODULE Spec2Model ----
(***************************************************************************)
(* Canada Pet Pulse: the content scoring and ranking engine.               *)
(*                                                                         *)
(*   CanadianFilter  (src/processors/canadian_filter.py)                   *)
(*   ContentRanker   (src/processors/content_ranker.py)                    *)
(*                                                                         *)
(* Texts are sequences of one-character strings, so that regular           *)
(* expression search, word boundaries, case folding and the substring      *)
(* test are computed character by character, as the code computes them.    *)
(* calculate_canadian_score is first modelled in hundredths (0.3 is 30,    *)
(* 1.0 is 100); where the score is stored, compared with a threshold or    *)
(* averaged it is the double the code computes.  A trending score, the     *)
(* result of round(x, 3), is its whole number of thousandths (0.975 is     *)
(* 975).                                                                   *)
(***************************************************************************)
EXTENDS Integers, Sequences, FiniteSets, TLC

VARIABLES
    text,            \* CanadianFilter: the argument of calculate_canadian_score
    ret,             \* CanadianFilter: the value the last call returned (hundredths)
    base,            \* CanadianFilter: the previous call, [text, ret, word, called]
    fpc,             \* CanadianFilter: "input" before the call, "returned" after it
    reddit_posts,    \* ContentRanker: first argument of rank_all_content
    news_articles,   \* ContentRanker: second argument of rank_all_content
    ranked_content,  \* ContentRanker: the list rank_all_content returned
    ranking_stats,   \* ContentRanker: the dict get_ranking_statistics returned
    rpc,             \* ContentRanker: "input" before the call, "returned" after it
    content_list,    \* CanadianFilter: the list a filter or the statistics are called on
    canadian_content,\* CanadianFilter: the list a filter returned
    call,            \* CanadianFilter: the last call on the list, with its arguments
    filter_stats,    \* CanadianFilter: the dict get_filter_statistics returned
    cpc,             \* CanadianFilter: "input", then "classified", "filtered", "counted"
    scored,          \* ContentRanker: the argument of a scoring function
    trend,           \* ContentRanker: the score it returned (thousandths)
    spc,             \* ContentRanker: "post" or "article", then "returned" or "raised"
    max_retries,     \* retry_on_failure: the decorator's max_retries
    delay,           \* retry_on_failure: the decorator's delay, in seconds
    attempt,         \* retry_on_failure: the loop variable of the wrapper
    last_exception,  \* retry_on_failure: the exception the wrapper keeps
    events,          \* retry_on_failure: the calls of func and of time.sleep, in order
    outcome,         \* retry_on_failure: what the wrapper returned or raised
    wpc,             \* retry_on_failure: "loop", "sleep", then "returned" or "raised"
    requests,        \* run_pipeline: what each subreddit request and each feed did
    canadian_reddit, \* run_pipeline: the posts filter_content kept
    canadian_news,   \* run_pipeline: the articles filter_content kept
    sources_succeeded, \* run_pipeline: main's list of source types that succeeded
    sources_failed,  \* run_pipeline: main's list of source types that failed
    candidates_file, \* run_pipeline: what save_candidates wrote
    main_ret,        \* run_pipeline: what main returned
    ppc,             \* run_pipeline: main's position
    approved_content,\* generate_site: the list auto_approve returned
    gpc,             \* generate_site: the position of AutomatedPipeline.run
    content_items,   \* review_content: the candidates under review
    index,           \* review_content: how many of them have been decided
    decisions,       \* review_content: the answers given, in order
    approved_items,  \* review_content: ContentReviewer.approved_items
    review_ret,      \* review_content: what review_interactive returned
    approved_file,   \* review_content: what save_approved wrote
    html,            \* review_content: whether generate_html was called
    vpc              \* review_content: "review", "returned", "saved", "done"

vars ==
    <<text, ret, base, fpc,
      reddit_posts, news_articles, ranked_content, ranking_stats, rpc,
      content_list, canadian_content, call, filter_stats, cpc,
      scored, trend, spc,
      max_retries, delay, attempt, last_exception, events, outcome, wpc,
      requests, canadian_reddit, canadian_news, sources_succeeded, sources_failed,
      candidates_file, main_ret, ppc,
      approved_content, gpc,
      content_items, index, decisions, approved_items, review_ret, approved_file,
      html, vpc>>
filterVars == <<text, ret, base, fpc>>
rankerVars == <<reddit_posts, news_articles, ranked_content, ranking_stats, rpc>>
contentVars == <<content_list, canadian_content, call, filter_stats, cpc>>
scoreVars == <<scored, trend, spc>>
retryVars == <<max_retries, delay, attempt, last_exception, events, outcome, wpc>>
pipeVars ==
    <<requests, canadian_reddit, canadian_news, sources_succeeded, sources_failed,
      candidates_file, main_ret, ppc>>
autoVars == <<approved_content, gpc>>
reviewVars ==
    <<content_items, index, decisions, approved_items, review_ret, approved_file,
      html, vpc>>
toolVars == <<retryVars, pipeVars, autoVars, reviewVars>>

Min(a, b) == IF a <= b THEN a ELSE b
Max(a, b) == IF a >= b THEN a ELSE b

(***************************************************************************)
(* Binary floating point.  Python floats are IEEE-754 doubles; the scores *)
(* of both processors are sums, products and quotients of doubles, and    *)
(* the statistics compare them.  A double is modelled exactly as m * 2^e, *)
(* its 53-bit mantissa m a little-endian sequence of limbs; an operation  *)
(* rounds to nearest, ties to even.  Only non-negative values occur.      *)
(***************************************************************************)
LIMB == 32768
LIMB_BITS == 15
MANT_BITS == 53

RECURSIVE BNorm(_)
BNorm(a) ==
    IF a = <<>> THEN <<>>
    ELSE IF a[Len(a)] = 0 THEN BNorm(SubSeq(a, 1, Len(a) - 1)) ELSE a

RECURSIVE BFromInt(_)
BFromInt(n) == IF n = 0 THEN <<>> ELSE <<n % LIMB>> \o BFromInt(n \div LIMB)

RECURSIVE BToInt(_)
BToInt(a) == IF a = <<>> THEN 0 ELSE a[1] + LIMB * BToInt(Tail(a))

\* limb i of a, 0 beyond its length
LimbAt(a, i) == IF i <= Len(a) THEN a[i] ELSE 0

\* the limbs of a + b from limb i on, c the carry into limb i
RECURSIVE BAddFrom(_, _, _, _)
BAddFrom(a, b, i, c) ==
    IF i > Len(a) /\ i > Len(b) THEN (IF c = 0 THEN <<>> ELSE <<c>>)
    ELSE <<(LimbAt(a, i) + LimbAt(b, i) + c) % LIMB>>
         \o BAddFrom(a, b, i + 1, (LimbAt(a, i) + LimbAt(b, i) + c) \div LIMB)

BAdd(a, b) == BAddFrom(a, b, 1, 0)

\* the limbs of a * k from limb i on, c the carry into limb i (k < LIMB)
RECURSIVE BMulSmallFrom(_, _, _, _)
BMulSmallFrom(a, k, i, c) ==
    IF i > Len(a) THEN (IF c = 0 THEN <<>> ELSE <<c>>)
    ELSE <<(a[i] * k + c) % LIMB>>
         \o BMulSmallFrom(a, k, i + 1, (a[i] * k + c) \div LIMB)

BMulSmall(a, k) == IF k = 0 THEN <<>> ELSE BMulSmallFrom(a, k, 1, 0)

\* a shifted up by n whole limbs
ShiftLimbs(a, n) == IF a = <<>> THEN <<>> ELSE [i \in 1..n |-> 0] \o a

\* a * (the limbs of b from limb j on)
RECURSIVE BMulFrom(_, _, _)
BMulFrom(a, b, j) ==
    IF j > Len(b) THEN <<>>
    ELSE BAdd(BMulSmall(a, b[j]), ShiftLimbs(BMulFrom(a, b, j + 1), 1))

BMul(a, b) == BMulFrom(a, b, 1)

\* one step of the long division by k < LIMB: hq is the quotient of the
\* limbs above, cur their remainder with the next limb appended
DivStep(hq, cur, k) == [q |-> BNorm(<<cur \div k>> \o hq), r |-> cur % k]

\* quotient and remainder of (the limbs of a from limb i on) by k
RECURSIVE BDivRemFrom(_, _, _)
BDivRemFrom(a, k, i) ==
    IF i > Len(a) THEN [q |-> <<>>, r |-> 0]
    ELSE DivStep(BDivRemFrom(a, k, i + 1).q,
                 BDivRemFrom(a, k, i + 1).r * LIMB + a[i], k)

BDivRem(a, k) == BDivRemFrom(a, k, 1)

RECURSIVE BCmpFrom(_, _, _)
BCmpFrom(a, b, i) ==
    IF i = 0 THEN 0
    ELSE IF a[i] < b[i] THEN -1
    ELSE IF a[i] > b[i] THEN 1
    ELSE BCmpFrom(a, b, i - 1)

BCmp(a, b) ==
    IF Len(a) < Len(b) THEN -1
    ELSE IF Len(a) > Len(b) THEN 1
    ELSE BCmpFrom(a, b, Len(a))

\* a * 2^d
BShl(a, d) == ShiftLimbs(BMulSmall(a, 2 ^ (d % LIMB_BITS)), d \div LIMB_BITS)

\* a \div 2^d
BShr(a, d) ==
    IF d \div LIMB_BITS >= Len(a) THEN <<>>
    ELSE BDivRem(SubSeq(a, d \div LIMB_BITS + 1, Len(a)), 2 ^ (d % LIMB_BITS)).q

BitLen(a) ==
    IF a = <<>> THEN 0
    ELSE LIMB_BITS * (Len(a) - 1)
         + (CHOOSE n \in 1..LIMB_BITS :
                2 ^ (n - 1) <= a[Len(a)] /\ a[Len(a)] < 2 ^ n)

\* q or q + 1: side tells on which side of q + 1/2 the exact value lies
RoundPick(q, side) ==
    IF side > 0 \/ (side = 0 /\ q # <<>> /\ q[1] % 2 = 1)
    THEN BAdd(q, <<1>>) ELSE q

RoundFrom(a, d, q) ==
    RoundPick(q, BCmp(BShl(a, 1), BAdd(BShl(q, d + 1), BShl(<<1>>, d))))

\* a / 2^d rounded to the nearest integer, ties to even
RoundShr(a, d) == IF d = 0 THEN a ELSE RoundFrom(a, d, BShr(a, d))

FZero == [m |-> <<>>, e |-> 0]

\* a rounded mantissa of one bit too many (a carry out of the rounding)
\* is halved
Renorm(q, e) ==
    IF BitLen(q) > MANT_BITS THEN [m |-> BShr(q, 1), e |-> e + 1]
    ELSE [m |-> q, e |-> e]

FRoundLen(N, e, L) ==
    IF N = <<>> THEN FZero
    ELSE IF L <= MANT_BITS
         THEN [m |-> BShl(N, MANT_BITS - L), e |-> e - (MANT_BITS - L)]
    ELSE Renorm(RoundShr(N, L - MANT_BITS), e + (L - MANT_BITS))

\* the double nearest to N * 2^e
FRound(N, e) == FRoundLen(N, e, BitLen(N))

FromInt(n) == FRound(BFromInt(n), 0)

FAddAt(a, b, lo) == FRound(BAdd(BShl(a.m, a.e - lo), BShl(b.m, b.e - lo)), lo)

FAdd(a, b) ==
    IF a.m = <<>> THEN b
    ELSE IF b.m = <<>> THEN a
    ELSE FAddAt(a, b, IF a.e <= b.e THEN a.e ELSE b.e)

FMul(a, b) == FRound(BMul(a.m, b.m), a.e + b.e)

\* the quotient d.q with a sticky bit for the remainder, rounded once
FRoundQuotient(d, e) ==
    FRound(BAdd(BShl(d.q, 1), IF d.r = 0 THEN <<>> ELSE <<1>>), e)

\* a / n for a whole number 0 < n < LIMB: the quotient is taken with two
\* extra limbs
FDivInt(a, n) ==
    FRoundQuotient(BDivRem(BShl(a.m, 2 * LIMB_BITS), n), a.e - 2 * LIMB_BITS - 1)

\* the double a decimal literal n/d denotes
FromRatio(n, d) == FDivInt(FromInt(n), d)

FCmpAt(a, b, lo) == BCmp(BShl(a.m, a.e - lo), BShl(b.m, b.e - lo))

FCmp(a, b) ==
    IF a.m = <<>> /\ b.m = <<>> THEN 0
    ELSE IF a.m = <<>> THEN -1
    ELSE IF b.m = <<>> THEN 1
    ELSE FCmpAt(a, b, IF a.e <= b.e THEN a.e ELSE b.e)

FLe(a, b) == FCmp(a, b) <= 0
FLt(a, b) == FCmp(a, b) < 0
FGe(a, b) == FCmp(a, b) >= 0
FMin(a, b) == IF FLt(b, a) THEN b ELSE a
FMax(a, b) == IF FLt(a, b) THEN b ELSE a

\* N * 2^e rounded to the nearest integer, ties to even
ScaleRound(N, e) == IF e >= 0 THEN BShl(N, e) ELSE RoundShr(N, -e)

\* round(x, 3) as a whole number of thousandths: Python rounds the
\* exact binary value, ties to even
FRound3(a) ==
    IF a.m = <<>> THEN 0 ELSE BToInt(ScaleRound(BMulSmall(a.m, 1000), a.e))

\* sum(scores): the running total starts at 0 and takes the scores in order
RECURSIVE FSum(_)
FSum(scores) ==
    IF scores = <<>> THEN FZero
    ELSE FAdd(FSum(SubSeq(scores, 1, Len(scores) - 1)), scores[Len(scores)])

(***************************************************************************)
(* Characters.                                                             *)
(***************************************************************************)
LOWER == <<"a","b","c","d","e","f","g","h","i","j","k","l","m","n","o","p","q","r","s","t","u","v","w","x","y","z","è">>
UPPER == <<"A","B","C","D","E","F","G","H","I","J","K","L","M","N","O","P","Q","R","S","T","U","V","W","X","Y","Z","È">>
DIGITS == {"0","1","2","3","4","5","6","7","8","9"}
LowerSet == {LOWER[i] : i \in 1..Len(LOWER)}
UpperSet == {UPPER[i] : i \in 1..Len(UPPER)}

\* str.lower() and re.IGNORECASE on one character
ToLower(c) ==
    IF c \in UpperSet THEN LOWER[CHOOSE i \in 1..Len(UPPER) : UPPER[i] = c] ELSE c

\* [A-Z] under re.IGNORECASE
IsLetter(c) == ToLower(c) \in LowerSet \ {"è"}
\* \d
IsDigit(c) == c \in DIGITS
\* \s
IsSpace(c) == c \in {" ", "\t", "\n"}
\* \w
IsWordChar(c) == c \in LowerSet \/ c \in UpperSet \/ c \in DIGITS \/ c = "_"

\* text.lower()
LowerText(s) == [i \in 1..Len(s) |-> ToLower(s[i])]

\* \b at the gap before position k of s (k = Len(s)+1 is the end of the string)
WordAt(s, k) == k >= 1 /\ k <= Len(s) /\ IsWordChar(s[k])
Boundary(s, k) == WordAt(s, k - 1) # WordAt(s, k)

\* term occurs in s at position i (s already lower-cased, term lower case)
OccursAt(term, s, i) ==
    /\ i + Len(term) - 1 <= Len(s)
    /\ s[i] = term[1]
    /\ \A j \in 2..Len(term) : s[i + j - 1] = term[j]

(***************************************************************************)
(* CanadianFilter: the term lists.                                         *)
(***************************************************************************)
\* src/processors/canadian_filter.py:27-33  Major Canadian cities
CITIES ==
    << <<"t","o","r","o","n","t","o">>,  \* toronto
       <<"v","a","n","c","o","u","v","e","r">>,  \* vancouver
       <<"m","o","n","t","r","e","a","l">>,  \* montreal
       <<"c","a","l","g","a","r","y">>,  \* calgary
       <<"o","t","t","a","w","a">>,  \* ottawa
       <<"e","d","m","o","n","t","o","n">>,  \* edmonton
       <<"w","i","n","n","i","p","e","g">>,  \* winnipeg
       <<"q","u","e","b","e","c"," ","c","i","t","y">>,  \* quebec city
       <<"h","a","m","i","l","t","o","n">>,  \* hamilton
       <<"k","i","t","c","h","e","n","e","r">>,  \* kitchener
       <<"l","o","n","d","o","n">>,  \* london
       <<"v","i","c","t","o","r","i","a">>,  \* victoria
       <<"h","a","l","i","f","a","x">>,  \* halifax
       <<"o","s","h","a","w","a">>,  \* oshawa
       <<"w","i","n","d","s","o","r">>,  \* windsor
       <<"s","a","s","k","a","t","o","o","n">>,  \* saskatoon
       <<"r","e","g","i","n","a">>,  \* regina
       <<"k","e","l","o","w","n","a">>,  \* kelowna
       <<"b","a","r","r","i","e">>,  \* barrie
       <<"s","h","e","r","b","r","o","o","k","e">>,  \* sherbrooke
       <<"g","u","e","l","p","h">>,  \* guelph
       <<"k","a","n","a","t","a">>,  \* kanata
       <<"a","b","b","o","t","s","f","o","r","d">>,  \* abbotsford
       <<"k","i","n","g","s","t","o","n">>,  \* kingston
       <<"t","r","o","i","s","-","r","i","v","i","è","r","e","s">>  \* trois-rivières
    >>

\* src/processors/canadian_filter.py:36-42  Canadian provinces and territories
PROVINCES ==
    << <<"o","n","t","a","r","i","o">>,  \* ontario
       <<"q","u","e","b","e","c">>,  \* quebec
       <<"b","r","i","t","i","s","h"," ","c","o","l","u","m","b","i","a">>,  \* british columbia
       <<"a","l","b","e","r","t","a">>,  \* alberta
       <<"m","a","n","i","t","o","b","a">>,  \* manitoba
       <<"s","a","s","k","a","t","c","h","e","w","a","n">>,  \* saskatchewan
       <<"n","o","v","a"," ","s","c","o","t","i","a">>,  \* nova scotia
       <<"n","e","w"," ","b","r","u","n","s","w","i","c","k">>,  \* new brunswick
       <<"n","e","w","f","o","u","n","d","l","a","n","d"," ","a","n","d"," ","l","a","b","r","a","d","o","r">>,  \* newfoundland and labrador
       <<"n","e","w","f","o","u","n","d","l","a","n","d">>,  \* newfoundland
       <<"l","a","b","r","a","d","o","r">>,  \* labrador
       <<"p","r","i","n","c","e"," ","e","d","w","a","r","d"," ","i","s","l","a","n","d">>,  \* prince edward island
       <<"p","e","i">>,  \* pei
       <<"n","o","r","t","h","w","e","s","t"," ","t","e","r","r","i","t","o","r","i","e","s">>,  \* northwest territories
       <<"n","u","n","a","v","u","t">>,  \* nunavut
       <<"y","u","k","o","n">>  \* yukon
    >>

\* src/processors/canadian_filter.py:45-47  Province abbreviations
PROVINCE_CODES ==
    << <<"o","n">>,  \* on
       <<"q","c">>,  \* qc
       <<"b","c">>,  \* bc
       <<"a","b">>,  \* ab
       <<"m","b">>,  \* mb
       <<"s","k">>,  \* sk
       <<"n","s">>,  \* ns
       <<"n","b">>,  \* nb
       <<"n","l">>,  \* nl
       <<"p","e">>,  \* pe
       <<"n","t">>,  \* nt
       <<"n","u">>,  \* nu
       <<"y","t">>  \* yt
    >>

\* src/processors/canadian_filter.py:50-57  Canadian-specific keywords
KEYWORDS ==
    << <<"c","a","n","a","d","a">>,  \* canada
       <<"c","a","n","a","d","i","a","n">>,  \* canadian
       <<"c","a","n","u","c","k">>,  \* canuck
       <<"c","a","n","a","d","i","a","n","s">>,  \* canadians
       <<"c","r","a">>,  \* cra
       <<"r","c","m","p">>,  \* rcmp
       <<"c","b","s","a">>,  \* cbsa
       <<"h","e","a","l","t","h"," ","c","a","n","a","d","a">>,  \* health canada
       <<"t","i","m"," ","h","o","r","t","o","n","s">>,  \* tim hortons
       <<"t","i","m","m","i","e","s">>,  \* timmies
       <<"l","o","b","l","a","w","s">>,  \* loblaws
       <<"c","a","n","a","d","i","a","n"," ","t","i","r","e">>,  \* canadian tire
       <<"s","h","o","p","p","e","r","s"," ","d","r","u","g"," ","m","a","r","t">>,  \* shoppers drug mart
       <<"s","o","b","e","y","s">>  \* sobeys
    >>


(***************************************************************************)
(* CanadianFilter: pattern matching.                                       *)
(***************************************************************************)
\* the same search with the \b anchors left out of the pattern
WordPatternSearch_NoBoundary(term, s) ==
    LET low == LowerText(s) IN
    \E i \in 1..Len(s) : OccursAt(term, low, i)

\* re.compile(r'\b' + re.escape(term) + r'\b', re.IGNORECASE).search(text)
WordPatternSearch(term, s) ==
    LET low == LowerText(s) IN
    \E i \in 1..Len(s) :
        /\ OccursAt(term, low, i)
        /\ Boundary(s, i)
        /\ Boundary(s, i + Len(term))

\* keyword in text_lower
KeywordInText(keyword, low) ==
    \E i \in 1..Len(low) : OccursAt(keyword, low, i)

\* POSTAL_CODE_PATTERN = r'\b[A-Z]\d[A-Z]\s?\d[A-Z]\d\b', re.IGNORECASE, at i
PostalCodeAt(s, i) ==
    /\ Boundary(s, i)
    /\ i + 5 <= Len(s)
    /\ IsLetter(s[i]) /\ IsDigit(s[i + 1]) /\ IsLetter(s[i + 2])
    /\ \/ /\ IsDigit(s[i + 3]) /\ IsLetter(s[i + 4]) /\ IsDigit(s[i + 5])
          /\ Boundary(s, i + 6)
       \/ /\ i + 6 <= Len(s)
          /\ IsSpace(s[i + 3])
          /\ IsDigit(s[i + 4]) /\ IsLetter(s[i + 5]) /\ IsDigit(s[i + 6])
          /\ Boundary(s, i + 7)

\* self.postal_code_regex.search(text)
PostalCodeSearch(s) == \E i \in 1..Len(s) : PostalCodeAt(s, i)

\* sum(1 for pattern in patterns if pattern.search(text))
CountMatches(terms, s) ==
    Cardinality({i \in 1..Len(terms) : WordPatternSearch(terms[i], s)})

\* sum(1 for keyword in self.KEYWORDS if keyword in text_lower)
CountKeywords(s) ==
    LET low == LowerText(s) IN
    Cardinality({i \in 1..Len(KEYWORDS) : KeywordInText(KEYWORDS[i], low)})

(***************************************************************************)
(* CanadianFilter.calculate_canadian_score, in hundredths.                 *)
(***************************************************************************)
CITY_POINTS == 30
CITY_MAX == 50
PROVINCE_POINTS == 20
PROVINCE_MAX == 30
KEYWORD_POINTS == 15
KEYWORD_MAX == 30
POSTAL_POINTS == 20
SCORE_CAP == 100

\* A text argument: None, or a str
NoneText == [isNone |-> TRUE, chars |-> <<>>]
Str(s) == [isNone |-> FALSE, chars |-> s]

CityPart(s) == Min(CountMatches(CITIES, s) * CITY_POINTS, CITY_MAX)
ProvincePart(s) ==
    Min((CountMatches(PROVINCES, s) + CountMatches(PROVINCE_CODES, s)) * PROVINCE_POINTS,
        PROVINCE_MAX)
KeywordPart(s) == Min(CountKeywords(s) * KEYWORD_POINTS, KEYWORD_MAX)
PostalPart(s) == IF PostalCodeSearch(s) THEN POSTAL_POINTS ELSE 0

\* the return without the cap: return score
FinalCap_NoCap(score) == score

\* return min(score, 1.0)
FinalCap(score) == Min(score, SCORE_CAP)

\* the guard written as: if text == ''
Falsy_EmptyOnly(t) == ~t.isNone /\ t.chars = <<>>

\* if not text: return 0.0
Falsy(t) == t.isNone \/ t.chars = <<>>

\* pattern.search(None) and None.lower() raise; the guard returns before them
Raises(t) == ~Falsy(t) /\ t.isNone

\* the postal code step written as an assignment: score = 0.2
calculate_canadian_score_PostalAssign(t) ==
    IF Falsy(t)
    THEN 0
    ELSE IF PostalCodeSearch(t.chars)
    THEN FinalCap(POSTAL_POINTS)
    ELSE FinalCap(CityPart(t.chars) + ProvincePart(t.chars) + KeywordPart(t.chars))

calculate_canadian_score(t) ==
    IF Falsy(t)
    THEN 0
    ELSE FinalCap(CityPart(t.chars) + ProvincePart(t.chars)
                  + KeywordPart(t.chars) + PostalPart(t.chars))

(***************************************************************************)
(* CanadianFilter: the texts the calls are made on.                        *)
(***************************************************************************)
W_Toronto == <<"T","o","r","o","n","t","o">>
W_ottawa == <<"o","t","t","a","w","a">>
W_quebec == <<"q","u","e","b","e","c">>
W_city == <<"c","i","t","y">>
W_BC == <<"B","C">>
W_on == <<"o","n">>
W_bacon == <<"b","a","c","o","n">>
W_crate == <<"c","r","a","t","e">>
W_canada == <<"c","a","n","a","d","a">>
W_rcmp == <<"r","c","m","p">>
W_M5V3A8 == <<"M","5","V","3","A","8">>
\* the docstring's examples (canadian_filter.py:97-100)
T_doc1 == <<"T","o","r","o","n","t","o"," ","d","o","g"," ","p","a","r","k">>
\* the postal code of the module's own test cases (canadian_filter.py:307)
T_postal == <<"M","5","V"," ","3","A","8">>
T_doc2 == <<"V","a","n","c","o","u","v","e","r"," ","B","C"," ","p","e","t"," ","r","e","s","c","u","e">>

\* the words appended to a text
Vocab ==
    {W_Toronto, W_ottawa, W_quebec, W_city, W_BC, W_on, W_bacon, W_crate,
     W_canada, W_rcmp, W_M5V3A8}

\* the longest text built by appending words
MaxLen == 14

RECURSIVE JoinWords(_)
JoinWords(ws) ==
    IF ws = <<>> THEN <<>>
    ELSE IF Len(ws) = 1 THEN ws[1]
    ELSE ws[1] \o <<" ">> \o JoinWords(Tail(ws))

\* every city, province, province code and keyword, and a postal code
T_all ==
    JoinWords(CITIES \o PROVINCES \o PROVINCE_CODES \o KEYWORDS \o <<T_postal>>)

SeedTexts == {NoneText, Str(<<>>), Str(T_postal), Str(T_doc1), Str(T_doc2), Str(T_all)}

NoBase == [text |-> NoneText, ret |-> 0, word |-> <<>>, how |-> "none"]

(***************************************************************************)
(* CanadianFilter: the calls.                                              *)
(***************************************************************************)
NoStats == [total_items |-> -1]

RankerIdle ==
    /\ reddit_posts = <<>>
    /\ news_articles = <<>>
    /\ ranked_content = <<>>
    /\ ranking_stats = NoStats
    /\ rpc = "idle"

NoCall == [op |-> "none"]

ContentIdle ==
    /\ content_list = <<>>
    /\ canadian_content = <<>>
    /\ call = NoCall
    /\ filter_stats = NoStats
    /\ cpc = "idle"

NoItem == [oid |-> 0]

ScoreIdle ==
    /\ scored = NoItem
    /\ trend = 0
    /\ spc = "idle"

NoException == [kind |-> "none", attempt |-> 0]

NoOutcome == [how |-> "none"]

RetryIdle ==
    /\ max_retries = 1
    /\ delay = 0
    /\ attempt = 0
    /\ last_exception = NoException
    /\ events = <<>>
    /\ outcome = NoOutcome
    /\ wpc = "idle"

NoRequests == [reddit |-> <<>>, news |-> <<>>]

NoFile == [called |-> FALSE, written |-> FALSE, content |-> <<>>]

PipeIdle ==
    /\ requests = NoRequests
    /\ canadian_reddit = <<>>
    /\ canadian_news = <<>>
    /\ sources_succeeded = <<>>
    /\ sources_failed = <<>>
    /\ candidates_file = NoFile
    /\ main_ret = "none"
    /\ ppc = "idle"

AutoIdle ==
    /\ approved_content = <<>>
    /\ gpc = "idle"

NotReturned == [returned |-> FALSE, value |-> <<>>]

ReviewIdle ==
    /\ content_items = <<>>
    /\ index = 0
    /\ decisions = <<>>
    /\ approved_items = <<>>
    /\ review_ret = NotReturned
    /\ approved_file = NoFile
    /\ html = FALSE
    /\ vpc = "idle"

ToolsIdle == RetryIdle /\ PipeIdle /\ AutoIdle /\ ReviewIdle

InitFilter ==
    /\ text \in SeedTexts
    /\ ret = 0
    /\ base = NoBase
    /\ fpc = "input"
    /\ RankerIdle
    /\ ContentIdle
    /\ ScoreIdle
    /\ ToolsIdle

\* score = filter.calculate_canadian_score(text)
Calculate ==
    /\ fpc = "input"
    /\ IF Raises(text)
       THEN fpc' = "raised" /\ ret' = ret
       ELSE fpc' = "returned" /\ ret' = calculate_canadian_score(text)
    /\ UNCHANGED <<text, base>>
    /\ UNCHANGED <<rankerVars, contentVars, scoreVars, toolVars>>

\* the next call is made on text + ' ' + w
AppendWord(w) ==
    /\ fpc = "returned"
    /\ ~text.isNone
    /\ Len(text.chars) + 1 + Len(w) <= MaxLen
    /\ base' = [text |-> text, ret |-> ret, word |-> w, how |-> "append"]
    /\ text' = Str(text.chars \o <<" ">> \o w)
    /\ fpc' = "input"
    /\ UNCHANGED ret
    /\ UNCHANGED <<rankerVars, contentVars, scoreVars, toolVars>>

\* the next call is made on text + w: w becomes part of the text's last word
GlueWord(w) ==
    /\ fpc = "returned"
    /\ ~text.isNone
    /\ text.chars # <<>>
    /\ Len(text.chars) + Len(w) <= MaxLen
    /\ base' = [text |-> text, ret |-> ret, word |-> w, how |-> "glue"]
    /\ text' = Str(text.chars \o w)
    /\ fpc' = "input"
    /\ UNCHANGED ret
    /\ UNCHANGED <<rankerVars, contentVars, scoreVars, toolVars>>

NextFilter ==
    \/ Calculate
    \/ \E w \in Vocab : AppendWord(w)
    \/ \E w \in Vocab : GlueWord(w)

SpecFilter == InitFilter /\ [][NextFilter]_vars

(***************************************************************************)
(* calculate_canadian_score: properties.                                   *)
(***************************************************************************)
\* the uncapped sum of the four capped contributions
UncappedSum(s) == CityPart(s) + ProvincePart(s) + KeywordPart(s) + PostalPart(s)

\* a listed term is mentioned in a text when it occurs there as a whole word
MentionsWord(term, s) ==
    \E i \in 1..Len(s) :
        /\ OccursAt(term, LowerText(s), i)
        /\ Boundary(s, i)
        /\ Boundary(s, i + Len(term))
MentionedCount(terms, s) ==
    Cardinality({i \in 1..Len(terms) : MentionsWord(terms[i], s)})
AllTerms == CITIES \o PROVINCES \o PROVINCE_CODES \o KEYWORDS

EndsInWordChar(s) == s # <<>> /\ IsWordChar(s[Len(s)])

\* C5: every returned score lies in [0.0, 1.0], also for a text that matches
\* every city, province, province code and keyword and holds a postal code.
C5_ScoreInUnitRange ==
    fpc = "returned" => (ret >= 0 /\ ret <= 100)

\* C5 witness: the text of all terms, whose uncapped sum is 1.3, has returned 1.0.
C5_Witness ==
    /\ fpc = "returned"
    /\ text = Str(T_all)
    /\ MentionedCount(AllTerms, T_all) = Len(AllTerms)
    /\ UncappedSum(T_all) = 130
    /\ ret = 100

\* C6: for every non-empty text the score is
\* min(1.0, min(0.3c, 0.5) + min(0.2p, 0.3) + min(0.15k, 0.3) + 0.2z), with c, p, k
\* the numbers of distinct cities, provinces or province codes, and keywords
\* mentioned in the text, and z = 1 when a postal code is present.
C6_ScoreFormula ==
    (fpc = "returned" /\ ~text.isNone /\ text.chars # <<>>) =>
        LET s == text.chars
            c == MentionedCount(CITIES, s)
            p == MentionedCount(PROVINCES, s) + MentionedCount(PROVINCE_CODES, s)
            k == MentionedCount(KEYWORDS, s)
            z == IF PostalCodeSearch(s) THEN 1 ELSE 0
        IN  ret = Min(100, Min(30 * c, 50) + Min(20 * p, 30) + Min(15 * k, 30) + 20 * z)

\* C7: every city, province and keyword match is a whole-word match: a change of
\* the text that adds no whole-word occurrence of a listed term, and no postal
\* code, does not increase the score.
C7_WholeWordMatchesOnly ==
    (/\ fpc = "returned"
     /\ base.how \in {"append", "glue"}
     /\ \A i \in 1..Len(AllTerms) :
            MentionsWord(AllTerms[i], text.chars) => MentionsWord(AllTerms[i], base.text.chars)
     /\ PostalCodeSearch(text.chars) => PostalCodeSearch(base.text.chars))
    => ret <= base.ret

\* the two-letter province codes among the appended words
CodeWords == {W_BC, W_on}

\* C8: a province code that appears only inside a longer word does not increase
\* the score; the same code as a word of its own, in any letter case, raises the
\* province contribution by 0.2, up to the cap of 0.3.
C8_ProvinceCodeWordBoundary ==
    fpc = "returned" =>
        /\ (base.how = "append" /\ base.word = W_bacon) => ret = base.ret
        /\ (base.how = "glue" /\ base.word \in CodeWords /\ EndsInWordChar(base.text.chars))
               => ret <= base.ret
        /\ (/\ base.how = "append"
            /\ base.word \in CodeWords
            /\ ~MentionsWord(LowerText(base.word), base.text.chars))
               => LET old == ProvincePart(base.text.chars)
                      new == ProvincePart(text.chars)
                  IN  /\ new = Min(old + 20, 30)
                      /\ ret = Min(100, base.ret + (new - old))

\* C8 witness: an upper-case code appended as a word to a text that already
\* mentions one province or code: the contribution goes from 0.2 to the cap 0.3.
C8_Witness ==
    /\ fpc = "returned"
    /\ base.how = "append"
    /\ base.word = W_BC
    /\ ProvincePart(base.text.chars) = 20
    /\ ret = base.ret + 10

\* the appended words that are matching terms: cities, a province, province
\* codes, keywords and a postal code
MatchingWords ==
    {W_Toronto, W_ottawa, W_quebec, W_BC, W_on, W_canada, W_rcmp, W_M5V3A8}

\* C9: the score is monotone in the matched terms: appending a matching term to
\* a text as a separate word never lowers the score.
C9_MonotoneOnAppend ==
    (fpc = "returned" /\ base.how = "append" /\ base.word \in MatchingWords)
        => ret >= base.ret

\* C9 witness: a postal code appended to a text that already scores raises it by 0.2.
C9_Witness ==
    /\ fpc = "returned"
    /\ base.how = "append"
    /\ base.word = W_M5V3A8
    /\ base.ret > 0
    /\ ret = base.ret + 20

\* C10: the empty string and None return exactly 0.0, and the call does not raise.
C10_EmptyOrNoneIsZero ==
    (fpc # "input" /\ (text.isNone \/ text.chars = <<>>))
        => (fpc = "returned" /\ ret = 0)

\* C10 witness: the call on None has returned.
C10_Witness == fpc = "returned" /\ text.isNone /\ ret = 0

(***************************************************************************)
(* ContentRanker: trending scores.                                         *)
(*                                                                         *)
(* A content item is a record (a dict): the keys it holds are its DOMAIN.  *)
(* Key oid stands for the identity of the dict object.  Times are epoch    *)
(* seconds.  canadian_score is a double; a trending score, the result of   *)
(* round(x, 3), is held as its whole number of thousandths.                *)
(***************************************************************************)
\* dict.get(key, default)
Get(d, key, default) == IF key \in DOMAIN d THEN d[key] ELSE default

\* d[key] = value
Put(d, key, value) ==
    [k \in DOMAIN d \cup {key} |-> IF k = key THEN value ELSE d[k]]

\* datetime.now(timezone.utc), as epoch seconds
Now == 1000000
HOUR == 3600

\* the float literals of the two scoring functions
D_1_0 == FromInt(1)
D_0_8 == FromRatio(8, 10)
D_0_5 == FromRatio(5, 10)
D_0_2 == FromRatio(2, 10)
D_0_7 == FromRatio(7, 10)
D_0_4 == FromRatio(4, 10)
D_0_1 == FromRatio(1, 10)
D_1_3 == FromRatio(13, 10)
D_5_0 == FromInt(5)

\* A Python value that need not be a number: a number n is Num(n).
Num(n) == [type |-> "number", value |-> n]
PyNone == [type |-> "NoneType"]
PyStr == [type |-> "str"]

\* math.log10(n), the double the C library returns, for the engagement
\* values of the posts below
Log10(n) ==
    CASE n = 1 -> FZero
      [] n = 4 -> [m |-> <<31231, 8510, 4173, 154>>, e |-> -53]
      [] n = 5 -> [m |-> <<17153, 12128, 30681, 178>>, e |-> -53]
      [] n = 10 -> [m |-> <<0, 0, 0, 128>>, e |-> -52]
      [] n = 14 -> [m |-> <<17567, 13256, 23081, 146>>, e |-> -52]
      [] n = 100 -> [m |-> <<0, 0, 0, 128>>, e |-> -51]
      [] n = 195 -> [m |-> <<5287, 21800, 18422, 146>>, e |-> -51]
      [] n = 200 -> [m |-> <<28480, 21543, 8713, 147>>, e |-> -51]
      [] n = 201 -> [m |-> <<11607, 7150, 13256, 147>>, e |-> -51]
      [] n = 210 -> [m |-> <<11727, 27472, 20382, 148>>, e |-> -51]
      [] n = 500 -> [m |-> <<4288, 11224, 24054, 172>>, e |-> -51]
      [] n = 504 -> [m |-> <<30287, 19803, 31311, 172>>, e |-> -51]
      [] n = 700 -> [m |-> <<13072, 1468, 2827, 182>>, e |-> -51]

\* engagement = (score * 1.0) + (comments * 2.0)
Engagement(post) == Get(post, "score", 0) + Get(post, "num_comments", 0) * 2

\* the floor taken on the size of the engagement, not on its value
FlooredEngagement_Magnitude(engagement) ==
    IF engagement >= 1 THEN engagement
    ELSE IF engagement <= -1 THEN -engagement ELSE 1

\* max(engagement, 1)
FlooredEngagement(engagement) == IF engagement >= 1 THEN engagement ELSE 1

\* the buckets closed on the right: a post of exactly 6, 12 or 24 hours
\* stays in the fresher bucket
RedditTimeMultiplier_ClosedRight(age_s) ==
    IF age_s <= 6 * HOUR THEN D_1_0
    ELSE IF age_s <= 12 * HOUR THEN D_0_8
    ELSE IF age_s <= 24 * HOUR THEN D_0_5
    ELSE D_0_2

\* time_multiplier of calculate_reddit_score
RedditTimeMultiplier(age_s) ==
    IF age_s < 6 * HOUR THEN D_1_0
    ELSE IF age_s < 12 * HOUR THEN D_0_8
    ELSE IF age_s < 24 * HOUR THEN D_0_5
    ELSE D_0_2

\* created_utc > 0 raises TypeError unless created_utc is a number
RedditScoreRaises(post) == Get(post, "created_utc", Num(0)).type # "number"

\* age_hours of calculate_reddit_score, in seconds
RedditAge(post) ==
    LET created_utc == Get(post, "created_utc", Num(0)).value
    IN  IF created_utc > 0 THEN Now - created_utc ELSE 999 * HOUR

\* canadian_boost = 1.0 + (canadian_score * 0.5)
CanadianBoost(item) ==
    FAdd(D_1_0, FMul(Get(item, "canadian_score", FZero), D_0_5))

\* the value of calculate_reddit_score(post) when it does not raise
calculate_reddit_score(post) ==
    LET time_multiplier == RedditTimeMultiplier(RedditAge(post))
        canadian_boost == CanadianBoost(post)
    IN  FRound3(FMul(FMul(Log10(FlooredEngagement(Engagement(post))),
                          time_multiplier),
                     canadian_boost))

\* time_multiplier of calculate_news_score
NewsTimeMultiplier(age_s) ==
    IF age_s < 6 * HOUR THEN D_1_0
    ELSE IF age_s < 12 * HOUR THEN D_0_7
    ELSE IF age_s < 24 * HOUR THEN D_0_4
    ELSE D_0_1

\* major_sources
MAJOR_SOURCES ==
    << <<"C","B","C">>,
       <<"C","T","V">>,
       <<"G","l","o","b","a","l"," ","N","e","w","s">>,
       <<"T","o","r","o","n","t","o"," ","S","t","a","r">>,
       <<"G","l","o","b","e"," ","a","n","d"," ","M","a","i","l">>
    >>

\* the outlet test as equality with a listed name
IsMajorSource_WholeName(source) ==
    \E k \in 1..Len(MAJOR_SOURCES) : source = MAJOR_SOURCES[k]

\* any(s in source for s in major_sources)
IsMajorSource(source) ==
    \E k \in 1..Len(MAJOR_SOURCES) :
        \E i \in 1..Len(source) : OccursAt(MAJOR_SOURCES[k], source, i)

\* the zone of the machine, as seconds east of UTC (a naive timestamp read
\* as local time would be shifted by it)
LOCAL_UTCOFFSET == -5 * HOUR

\* The 'published' value.  Form "iso" is a string isoparse accepts: wall is
\* its clock reading counted as if it were UTC; an aware one names its zone,
\* utcoffset seconds east of UTC, a naive one names none.  "empty" is '' and
\* "invalid" any other string isoparse rejects (ValueError); "not_str" is a
\* value that is no string.  An absent key reads as ''.
Iso(wall, utcoffset) ==
    [form |-> "iso", wall |-> wall, aware |-> TRUE, utcoffset |-> utcoffset]
IsoNaive(wall) == [form |-> "iso", wall |-> wall, aware |-> FALSE]

\* a naive timestamp read in the zone of the machine
PublishedAt_NaiveIsLocal(article) ==
    LET published == Get(article, "published", [form |-> "empty"])
    IN  IF published.form = "iso"
        THEN IF ~published.aware
             THEN published.wall - LOCAL_UTCOFFSET
             ELSE published.wall - published.utcoffset
        ELSE Now

\* a value that cannot be parsed read as the epoch
PublishedAt_EpochOnFailure(article) ==
    LET published == Get(article, "published", [form |-> "empty"])
    IN  IF published.form = "iso"
        THEN IF ~published.aware
             THEN published.wall
             ELSE published.wall - published.utcoffset
        ELSE 0

\* published_dt, as epoch seconds
PublishedAt(article) ==
    LET published == Get(article, "published", [form |-> "empty"])
    IN  IF published.form = "iso"
        THEN IF ~published.aware
             THEN published.wall
             ELSE published.wall - published.utcoffset
        ELSE Now

\* source_boost
SourceBoost(article) ==
    IF IsMajorSource(Get(article, "source", <<>>)) THEN D_1_3 ELSE D_1_0

calculate_news_score(article) ==
    LET time_multiplier == NewsTimeMultiplier(Now - PublishedAt(article))
        source_boost == SourceBoost(article)
        canadian_boost == CanadianBoost(article)
    IN  FRound3(FMul(FMul(FMul(D_5_0, time_multiplier), source_boost),
                     canadian_boost))

(***************************************************************************)
(* ContentRanker.rank_all_content.                                         *)
(***************************************************************************)
\* the news tag written as 'reddit'
TagNews_AsReddit == "reddit"

TagReddit == "reddit"
TagNews == "news"

\* post['trending_score'] = ...; post['content_type'] = 'reddit'
ScoreReddit(post) ==
    Put(Put(post, "trending_score", calculate_reddit_score(post)),
        "content_type", TagReddit)

\* article['trending_score'] = ...; article['content_type'] = 'news'
ScoreNews(article) ==
    Put(Put(article, "trending_score", calculate_news_score(article)),
        "content_type", TagNews)

\* all_content after both loops
AllContent(posts, articles) ==
    [i \in 1..Len(posts) |-> ScoreReddit(posts[i])]
        \o [i \in 1..Len(articles) |-> ScoreNews(articles[i])]

\* the place of x when reverse=True is left out: the list is kept ascending
InsertPoint_Ascending(sorted, x) ==
    Cardinality({i \in 1..Len(sorted) : sorted[i].trending_score <= x.trending_score})

\* the place of x when equal keys are put in reverse order (sorted(...)[::-1])
InsertPoint_TiesReversed(sorted, x) ==
    Cardinality({i \in 1..Len(sorted) : sorted[i].trending_score > x.trending_score})

\* sorted(..., key=trending_score, reverse=True) is stable: x, which comes after
\* the items already placed, goes behind every item whose key is >= its own
InsertPoint(sorted, x) ==
    Cardinality({i \in 1..Len(sorted) : sorted[i].trending_score >= x.trending_score})

InsertSorted(sorted, x) ==
    LET n == InsertPoint(sorted, x)
    IN  SubSeq(sorted, 1, n) \o <<x>> \o SubSeq(sorted, n + 1, Len(sorted))

RECURSIVE SortedByTrending(_)
SortedByTrending(items) ==
    IF items = <<>> THEN <<>>
    ELSE InsertSorted(SortedByTrending(SubSeq(items, 1, Len(items) - 1)),
                      items[Len(items)])

\* the return value cut to a display limit
Returned_Truncated(ranked) == SubSeq(ranked, 1, Min(Len(ranked), 2))

\* return ranked_content
Returned(ranked) == ranked

\* ranked_content, from all_content
Ranked(all_content) == Returned(SortedByTrending(all_content))

rank_all_content(posts, articles) == Ranked(AllContent(posts, articles))

\* scores = [c['trending_score'] for c in content], in thousandths
TrendingScores(content) == [i \in 1..Len(content) |-> content[i].trending_score]

\* the float a score of t thousandths is: round(x, 3) returns the double
\* nearest to t/1000
ScoreAsFloat(t) == FromRatio(t, 1000)

\* max(scores), min(scores)
MaxOf(scores) ==
    CHOOSE x \in {scores[i] : i \in 1..Len(scores)} :
        \A i \in 1..Len(scores) : scores[i] <= x
MinOf(scores) ==
    CHOOSE x \in {scores[i] : i \in 1..Len(scores)} :
        \A i \in 1..Len(scores) : x <= scores[i]

CountOfType(content, content_type) ==
    Cardinality({i \in 1..Len(content) :
        Get(content[i], "content_type", "") = content_type})

\* the last five scores instead of the first five
Top5_LastFive(scores) ==
    IF Len(scores) >= 5 THEN SubSeq(scores, Len(scores) - 4, Len(scores)) ELSE scores

\* scores[:5] if len(scores) >= 5 else scores
Top5(scores) == IF Len(scores) >= 5 THEN SubSeq(scores, 1, 5) ELSE scores

\* the dict returned for a non-empty list; max_score, min_score and
\* top_5_scores in thousandths, avg_score as the double sum(scores)/len(scores)
RankingStatisticsOf(content, scores) ==
    [total_items |-> Len(content),
     reddit_items |-> CountOfType(content, "reddit"),
     news_items |-> CountOfType(content, "news"),
     avg_score |-> FDivInt(FSum([i \in 1..Len(scores) |-> ScoreAsFloat(scores[i])]),
                           Len(scores)),
     max_score |-> MaxOf(scores),
     min_score |-> MinOf(scores),
     top_5_scores |-> Top5(scores)]

get_ranking_statistics(content) ==
    IF content = <<>>
    THEN [total_items |-> 0, avg_score |-> FZero, max_score |-> 0, min_score |-> 0]
    ELSE RankingStatisticsOf(content, TrendingScores(content))

(***************************************************************************)
(* ContentRanker: the lists the calls are made on.                         *)
(***************************************************************************)
S_CBCNews == <<"C","B","C"," ","N","e","w","s">>
S_PetBlog == <<"P","e","t"," ","B","l","o","g">>
S_CTV == <<"C","T","V">>

\* 500 upvotes, 100 comments, 3 hours old, relevance 0.8: scores 3.983
R_hot ==
    [score |-> 500, num_comments |-> 100, created_utc |-> Num(Now - 3 * HOUR),
     canadian_score |-> FromRatio(8, 10)]
\* no engagement: scores 0.0
R_zero ==
    [score |-> 0, num_comments |-> 0, created_utc |-> Num(Now - 3 * HOUR),
     canadian_score |-> FZero]
\* 100 upvotes, 3 hours old: scores 2.0, as N_tie does
R_tie ==
    [score |-> 100, num_comments |-> 0, created_utc |-> Num(Now - 3 * HOUR),
     canadian_score |-> FZero]
\* no timestamp, and the keys of an earlier ranking still on it: scores 0.4
R_old ==
    [score |-> 10, num_comments |-> 45, created_utc |-> Num(0), canadian_score |-> FZero,
     trending_score |-> 9999, content_type |-> "news"]

\* a major outlet, 30 hours old, relevance 1.0: scores 0.975
N_cbc_old ==
    [published |-> Iso(Now - 30 * HOUR, 0),
     source |-> S_CBCNews, canadian_score |-> D_1_0]
\* 13 hours old: scores 2.0, as R_tie does
N_tie ==
    [published |-> Iso(Now - 13 * HOUR, 0),
     source |-> S_PetBlog, canadian_score |-> FZero]
\* 1 hour old: scores 5.0
N_fresh ==
    [published |-> Iso(Now - 1 * HOUR, 0),
     source |-> S_PetBlog, canadian_score |-> FZero]
\* no 'published' key, a major outlet, relevance 0.5: scores 8.125
N_undated ==
    [source |-> S_CTV, canadian_score |-> D_0_5]

RedditDomain == {R_hot, R_zero, R_tie, R_old}
NewsDomain == {N_cbc_old, N_tie, N_fresh, N_undated}

\* the longest lists passed to rank_all_content
MaxReddit == 2
MaxNews == 2

BoundedSeq(S, n) == UNION {[1..k -> S] : k \in 0..n}

\* distinct dict objects: the i-th item of the concatenation has identity i
WithOids(items, offset) ==
    [i \in 1..Len(items) |-> Put(items[i], "oid", offset + i)]

FilterIdle ==
    /\ text = NoneText
    /\ ret = 0
    /\ base = NoBase
    /\ fpc = "idle"

InitRanker ==
    /\ \E rs \in BoundedSeq(RedditDomain, MaxReddit) :
       \E ns \in BoundedSeq(NewsDomain, MaxNews) :
           /\ reddit_posts = WithOids(rs, 0)
           /\ news_articles = WithOids(ns, Len(rs))
    /\ ranked_content = <<>>
    /\ ranking_stats = NoStats
    /\ rpc = "input"
    /\ FilterIdle
    /\ ContentIdle
    /\ ScoreIdle
    /\ ToolsIdle

\* ranked = ranker.rank_all_content(reddit_posts, news_articles): the items of
\* both lists are scored and tagged in place, and the sorted list is returned
RankAllContent ==
    /\ rpc = "input"
    /\ \E all_content \in {AllContent(reddit_posts, news_articles)} :
           /\ ranked_content' = Ranked(all_content)
           /\ reddit_posts' = SubSeq(all_content, 1, Len(reddit_posts))
           /\ news_articles' =
                  SubSeq(all_content, Len(reddit_posts) + 1, Len(all_content))
    /\ rpc' = "returned"
    /\ UNCHANGED ranking_stats
    /\ UNCHANGED <<filterVars, contentVars, scoreVars, toolVars>>

\* stats = ranker.get_ranking_statistics(ranked)
GetRankingStatistics ==
    /\ rpc = "returned"
    /\ ranking_stats' = get_ranking_statistics(ranked_content)
    /\ rpc' = "counted"
    /\ UNCHANGED <<reddit_posts, news_articles, ranked_content>>
    /\ UNCHANGED <<filterVars, contentVars, scoreVars, toolVars>>

NextRanker ==
    \/ RankAllContent
    \/ GetRankingStatistics

SpecRanker == InitRanker /\ [][NextRanker]_vars

(***************************************************************************)
(* rank_all_content: properties.                                           *)
(***************************************************************************)
RankKeys == {"trending_score", "content_type"}

\* item a is the object b, with nothing changed but the two keys ranking sets
SameObject(a, b) ==
    /\ a.oid = b.oid
    /\ DOMAIN a = DOMAIN b \cup RankKeys
    /\ \A k \in DOMAIN b \ RankKeys : a[k] = b[k]

\* C1: the returned list is ordered by trending_score, descending: each item's
\* score is >= the score of the item after it.
C1_SortedDescending ==
    rpc = "returned" =>
        \A i \in 1..(Len(ranked_content) - 1) :
            ranked_content[i].trending_score >= ranked_content[i + 1].trending_score

\* C1 witness: four items with three different scores have been ranked, and the
\* first of the input is not the first of the result.
C1_Witness ==
    /\ rpc = "returned"
    /\ Len(ranked_content) = 4
    /\ Cardinality({ranked_content[i].trending_score : i \in 1..4}) >= 3
    /\ ranked_content[1].oid # 1

\* C2: the returned list is a permutation of the concatenation of the two
\* lists passed in: as long as both together, each input item in it exactly
\* once, nothing added; two empty lists give the empty list.
C2_Permutation ==
    [][(rpc = "input" /\ rpc' = "returned") =>
        LET input == reddit_posts \o news_articles
            out == ranked_content'
        IN  /\ Len(out) = Len(reddit_posts) + Len(news_articles)
            /\ \A i \in 1..Len(input) :
                   Cardinality({j \in 1..Len(out) : SameObject(out[j], input[i])}) = 1
            /\ \A j \in 1..Len(out) :
                   \E i \in 1..Len(input) : SameObject(out[j], input[i])
            /\ (input = <<>> => out = <<>>)
      ]_vars

\* C2 witness: three or more items were returned in an order that is not the
\* order they were passed in.
C2_Witness ==
    /\ rpc = "returned"
    /\ Len(ranked_content) >= 3
    /\ Len(ranked_content) = Len(reddit_posts) + Len(news_articles)
    /\ \E j \in 1..Len(ranked_content) : ranked_content[j].oid # j

\* C3: every returned item carries a trending_score and a content_type: 'reddit'
\* and the Reddit score for the items of the first list, 'news' and the news
\* score for the items of the second.
C3_TaggedBySourceList ==
    rpc = "returned" =>
        \A j \in 1..Len(ranked_content) :
            LET x == ranked_content[j] IN
            /\ RankKeys \subseteq DOMAIN x
            /\ IF x.oid <= Len(reddit_posts)
               THEN /\ x.content_type = "reddit"
                    /\ x.trending_score = calculate_reddit_score(x)
               ELSE /\ x.content_type = "news"
                    /\ x.trending_score = calculate_news_score(x)

\* C3 witness: a post that came in tagged 'news' with a score of an earlier run,
\* and an article, have both been returned.
C3_Witness ==
    /\ rpc = "returned"
    /\ \E j \in 1..Len(ranked_content) :
           /\ ranked_content[j].oid <= Len(reddit_posts)
           /\ ranked_content[j].score = R_old.score
           /\ ranked_content[j].content_type = "reddit"
           /\ ranked_content[j].trending_score = 400
    /\ \E j \in 1..Len(ranked_content) :
           /\ ranked_content[j].oid > Len(reddit_posts)
           /\ ranked_content[j].content_type = "news"

\* C4: ties are broken stably: two returned items with equal trending_score are
\* in the order they have in the concatenation reddit_posts + news_articles.
C4_TiesKeepInputOrder ==
    rpc = "returned" =>
        \A i, j \in 1..Len(ranked_content) :
            (/\ i < j
             /\ ranked_content[i].trending_score = ranked_content[j].trending_score)
                => ranked_content[i].oid < ranked_content[j].oid

\* C4 witness: two tied posts and a tied article: the posts first, in list order.
C4_Witness ==
    /\ rpc = "returned"
    /\ \E i \in 1..(Len(ranked_content) - 2) :
           /\ ranked_content[i].trending_score = ranked_content[i + 2].trending_score
           /\ ranked_content[i].content_type = "reddit"
           /\ ranked_content[i + 1].content_type = "reddit"
           /\ ranked_content[i + 2].content_type = "news"
           /\ ranked_content[i].oid < ranked_content[i + 1].oid

(***************************************************************************)
(* CanadianFilter: is_canadian, the two list filters and the statistics.   *)
(*                                                                         *)
(* The lists hold content items (dicts); a text field is a sequence of     *)
(* characters.  canadian_score is the double the code stores.              *)
(***************************************************************************)
\* the float literals of the filter
D_0_3 == FromRatio(3, 10)
D_0_15 == FromRatio(15, 100)
D_0_45 == FromRatio(45, 100)

\* if city_matches > 0: score += min(city_matches * 0.3, 0.5)
AddCities(score, n) ==
    IF n > 0 THEN FAdd(score, FMin(FMul(FromInt(n), D_0_3), D_0_5)) ELSE score

\* if province_matches > 0: score += min(province_matches * 0.2, 0.3)
AddProvinces(score, n) ==
    IF n > 0 THEN FAdd(score, FMin(FMul(FromInt(n), D_0_2), D_0_3)) ELSE score

\* if keyword_matches > 0: score += min(keyword_matches * 0.15, 0.3)
AddKeywords(score, n) ==
    IF n > 0 THEN FAdd(score, FMin(FMul(FromInt(n), D_0_15), D_0_3)) ELSE score

\* if self.postal_pattern.search(text): score += 0.2
AddPostal(score, found) == IF found THEN FAdd(score, D_0_2) ELSE score

\* calculate_canadian_score(text) as the double it returns
CanadianScore(t) ==
    IF Falsy(t) THEN FZero
    ELSE FMin(AddPostal(
                  AddKeywords(
                      AddProvinces(
                          AddCities(FZero, CountMatches(CITIES, t.chars)),
                          CountMatches(PROVINCES, t.chars)
                              + CountMatches(PROVINCE_CODES, t.chars)),
                      CountKeywords(t.chars)),
                  PostalCodeSearch(t.chars)),
              D_1_0)

\* searchable_text: the title, then ' ' + selftext and ' ' + summary for
\* the keys the item holds
SearchableText(content) ==
    LET title == Get(content, "title", <<>>)
        withBody == IF "selftext" \in DOMAIN content
                    THEN title \o <<" ">> \o content.selftext
                    ELSE title
    IN  IF "summary" \in DOMAIN content
        THEN withBody \o <<" ">> \o content.summary
        ELSE withBody

\* the score is_canadian computes for the item
TextScore(content) == CanadianScore(Str(SearchableText(content)))

\* the score attached only to an item that is accepted
Classified_ScoreOnlyWhenAccepted(content, threshold, score) ==
    [content |-> IF FGe(score, threshold)
                 THEN Put(content, "canadian_score", score)
                 ELSE content,
     result  |-> FGe(score, threshold)]

\* the score added to the one the item already carries
Classified_ScoreAccumulated(content, threshold, score) ==
    [content |-> Put(content, "canadian_score",
                     FAdd(Get(content, "canadian_score", FZero), score)),
     result  |-> FGe(FAdd(Get(content, "canadian_score", FZero), score), threshold)]

\* content['canadian_score'] = score; return score >= threshold
Classified(content, threshold, score) ==
    [content |-> Put(content, "canadian_score", score),
     result  |-> FGe(score, threshold)]

\* is_canadian(content, threshold): the item after the call (the score is
\* stored on it) and the value returned
is_canadian(content, threshold) ==
    Classified(content, threshold, TextScore(content))

\* the items of a list for which keep holds, in their order
RECURSIVE SelectSeq2(_, _)
SelectSeq2(items, keep) ==
    IF items = <<>> THEN <<>>
    ELSE (IF keep[1] THEN <<Head(items)>> ELSE <<>>)
         \o SelectSeq2(Tail(items), Tail(keep))

\* what a filter leaves behind: the list it was called on, its items
\* changed in place, and the list it returns
Filtered(calls) ==
    [list     |-> [i \in 1..Len(calls) |-> calls[i].content],
     returned |-> SelectSeq2([i \in 1..Len(calls) |-> calls[i].content],
                             [i \in 1..Len(calls) |-> calls[i].result])]

\* [content for content in content_list if self.is_canadian(content, threshold)]
filter_canadian_content(content_list_, threshold) ==
    Filtered([i \in 1..Len(content_list_) |->
                  is_canadian(content_list_[i], threshold)])

canadian_subreddits ==
    { <<"c","a","n","a","d","a">>,
      <<"t","o","r","o","n","t","o">>,
      <<"v","a","n","c","o","u","v","e","r">>,
      <<"m","o","n","t","r","e","a","l">>,
      <<"c","a","l","g","a","r","y">>,
      <<"o","t","t","a","w","a">>,
      <<"e","d","m","o","n","t","o","n">>,
      <<"w","i","n","n","i","p","e","g">>,
      <<"o","n","g","u","a","r","d","f","o","r","t","h","e","e">>,
      <<"b","r","i","t","i","s","h","c","o","l","u","m","b","i","a">>,
      <<"o","n","t","a","r","i","o">>,
      <<"q","u","e","b","e","c">>,
      <<"a","l","b","e","r","t","a">> }

pet_subreddits ==
    { <<"d","o","g","s">>,
      <<"p","u","p","p","y","1","0","1">>,
      <<"d","o","g","t","r","a","i","n","i","n","g">>,
      <<"c","a","t","s">>,
      <<"c","a","t","a","d","v","i","c","e">>,
      <<"p","e","t","s">>,
      <<"a","w","w">> }

\* the name compared as it is written, without .lower()
SubredditOf_CaseSensitive(post) == Get(post, "subreddit", <<>>)

\* subreddit = post.get('subreddit', '').lower()
SubredditOf(post) == LowerText(Get(post, "subreddit", <<>>))

\* the tier read from the text of the post as well: a post that mentions a
\* pet subreddit's name gets the pet threshold
TierThreshold_ByText(post) ==
    IF SubredditOf(post) \in pet_subreddits
       \/ \E p \in pet_subreddits : WordPatternSearch(p, SearchableText(post))
    THEN D_0_15 ELSE D_0_3

\* the threshold is_canadian is called with for a post outside the Canadian
\* subreddits
TierThreshold(post) ==
    IF SubredditOf(post) \in pet_subreddits THEN D_0_15 ELSE D_0_3

\* one turn of the loop of filter_by_subreddit: the post after it, and
\* whether it was appended to filtered_posts
SubredditStep(post) ==
    IF SubredditOf(post) \in canadian_subreddits
    THEN [content |-> Put(post, "canadian_score", D_1_0), result |-> TRUE]
    ELSE is_canadian(post, TierThreshold(post))

\* filter_by_subreddit: the loop over the posts
filter_by_subreddit(posts) ==
    Filtered([i \in 1..Len(posts) |-> SubredditStep(posts[i])])

RECURSIVE FMinOf(_)
FMinOf(scores) ==
    IF Len(scores) = 1 THEN scores[1]
    ELSE FMin(FMinOf(SubSeq(scores, 1, Len(scores) - 1)), scores[Len(scores)])

RECURSIVE FMaxOf(_)
FMaxOf(scores) ==
    IF Len(scores) = 1 THEN scores[1]
    ELSE FMax(FMaxOf(SubSeq(scores, 1, Len(scores) - 1)), scores[Len(scores)])

\* scores = [c.get('canadian_score', 0.0) for c in content_list]
CanadianScores(content_list_) ==
    [i \in 1..Len(content_list_) |-> Get(content_list_[i], "canadian_score", FZero)]

\* the dict get_filter_statistics builds from the scores of a list that is
\* not empty
FilterStatisticsOf(scores) ==
    [total_items |-> Len(scores),
     avg_score |-> FDivInt(FSum(scores), Len(scores)),
     min_score |-> FMinOf(scores),
     max_score |-> FMaxOf(scores),
     high_relevance |->
         Cardinality({i \in 1..Len(scores) : FGe(scores[i], D_0_7)}),
     medium_relevance |->
         Cardinality({i \in 1..Len(scores) :
                          FLe(D_0_3, scores[i]) /\ FLt(scores[i], D_0_7)}),
     low_relevance |->
         Cardinality({i \in 1..Len(scores) : FLt(scores[i], D_0_3)})]

\* the dict get_filter_statistics returns
get_filter_statistics(content_list_) ==
    IF content_list_ = <<>>
    THEN [total_items |-> 0, avg_score |-> FZero,
          min_score |-> FZero, max_score |-> FZero]
    ELSE FilterStatisticsOf(CanadianScores(content_list_))

(***************************************************************************)
(* CanadianFilter: the lists the calls are made on.                        *)
(***************************************************************************)
SUB_Toronto == <<"T","o","r","o","n","t","o">>
SUB_Dogs == <<"D","o","g","s">>
SUB_AskReddit == <<"A","s","k","R","e","d","d","i","t">>
T_dogs_rcmp == <<"d","o","g","s"," ","r","c","m","p">>

\* r/Toronto, nothing Canadian in the text (the text scores 0.0)
P_local == [title |-> W_bacon, selftext |-> <<>>, subreddit |-> SUB_Toronto]
\* r/Dogs, one keyword (0.15)
P_pet == [title |-> W_rcmp, selftext |-> <<>>, subreddit |-> SUB_Dogs]
\* r/Dogs, nothing Canadian (0.0)
P_pet_plain == [title |-> W_bacon, selftext |-> <<>>, subreddit |-> SUB_Dogs]
\* r/AskReddit, one keyword and the word dogs in the title (0.15)
P_other == [title |-> T_dogs_rcmp, selftext |-> <<>>, subreddit |-> SUB_AskReddit]
\* no subreddit key, a city in the title and a keyword in the body
\* (0.3 + 0.15, the double 0.44999999999999996)
P_nosub == [title |-> W_Toronto, selftext |-> W_rcmp]
\* a news article, a province in its summary (0.2)
A_province == [title |-> W_bacon, summary |-> W_quebec]

ContentDomain == {P_local, P_pet, P_pet_plain, P_other, P_nosub, A_province}

\* the longest list passed to a filter
MaxContent == 3

\* the thresholds the callers pass (0.2 is also the default)
Thresholds == {D_0_2, D_0_45}

InitContent ==
    /\ \E cs \in BoundedSeq(ContentDomain, MaxContent) :
           content_list = WithOids(cs, 0)
    /\ canadian_content = <<>>
    /\ call = NoCall
    /\ filter_stats = NoStats
    /\ cpc = "input"
    /\ FilterIdle
    /\ RankerIdle
    /\ ScoreIdle
    /\ ToolsIdle

\* filter.is_canadian(content_list[i], threshold)
IsCanadian(i, threshold) ==
    /\ cpc = "input"
    /\ i \in 1..Len(content_list)
    /\ \E r \in {is_canadian(content_list[i], threshold)} :
           /\ content_list' = [content_list EXCEPT ![i] = r.content]
           /\ call' = [op |-> "is_canadian", index |-> i,
                       threshold |-> threshold, result |-> r.result]
    /\ cpc' = "classified"
    /\ UNCHANGED <<canadian_content, filter_stats>>
    /\ UNCHANGED <<filterVars, rankerVars, scoreVars, toolVars>>

\* canadian_content = filter.filter_canadian_content(content_list, threshold)
FilterCanadianContent(threshold) ==
    /\ cpc = "input"
    /\ \E r \in {filter_canadian_content(content_list, threshold)} :
           /\ content_list' = r.list
           /\ canadian_content' = r.returned
    /\ call' = [op |-> "filter_canadian_content", threshold |-> threshold]
    /\ cpc' = "filtered"
    /\ UNCHANGED filter_stats
    /\ UNCHANGED <<filterVars, rankerVars, scoreVars, toolVars>>

\* canadian_content = filter.filter_by_subreddit(content_list)
FilterBySubreddit ==
    /\ cpc = "input"
    /\ \E r \in {filter_by_subreddit(content_list)} :
           /\ content_list' = r.list
           /\ canadian_content' = r.returned
    /\ call' = [op |-> "filter_by_subreddit"]
    /\ cpc' = "filtered"
    /\ UNCHANGED filter_stats
    /\ UNCHANGED <<filterVars, rankerVars, scoreVars, toolVars>>

\* filter_stats = filter.get_filter_statistics(...) on the list the caller
\* holds, or on the list a filter returned
GetFilterStatistics(ofReturned) ==
    /\ cpc \in {"input", "classified", "filtered"}
    /\ ofReturned => cpc = "filtered"
    /\ \E counted \in {IF ofReturned THEN canadian_content ELSE content_list} :
           /\ filter_stats' = get_filter_statistics(counted)
           /\ call' = [op |-> "get_filter_statistics", arg |-> counted]
    /\ cpc' = "counted"
    /\ UNCHANGED <<content_list, canadian_content>>
    /\ UNCHANGED <<filterVars, rankerVars, scoreVars, toolVars>>

NextContent ==
    \/ \E i \in 1..Len(content_list), th \in Thresholds : IsCanadian(i, th)
    \/ \E th \in Thresholds : FilterCanadianContent(th)
    \/ FilterBySubreddit
    \/ \E b \in BOOLEAN : GetFilterStatistics(b)

SpecContent == InitContent /\ [][NextContent]_vars

(***************************************************************************)
(* CanadianFilter: properties of is_canadian and of the two list filters.  *)
(***************************************************************************)
\* item after is item before with a canadian_score put on it
OnlyScoreAdded(before, after) ==
    /\ DOMAIN after = DOMAIN before \cup {"canadian_score"}
    /\ \A k \in DOMAIN before \ {"canadian_score"} : after[k] = before[k]

\* item i of the list is one of the objects of the returned list
Included(i) ==
    \E j \in 1..Len(canadian_content) :
        /\ canadian_content[j].oid = content_list[i].oid
        /\ canadian_content[j] = content_list[i]

BySubreddit == cpc = "filtered" /\ call.op = "filter_by_subreddit"

\* C11: is_canadian(record, threshold) stores the score it computed in
\* record['canadian_score'] whether it returns True or False, and returns
\* True exactly when that score is >= threshold; after
\* filter_canadian_content or filter_by_subreddit every record of the input
\* list carries a canadian_score and no other field of it has changed.
C11_ScoreStoredOnEveryRecord ==
    [][ /\ (cpc = "input" /\ cpc' = "classified") =>
               /\ "canadian_score" \in DOMAIN content_list'[call'.index]
               /\ content_list'[call'.index].canadian_score
                      = TextScore(content_list[call'.index])
               /\ call'.result
                      = FGe(TextScore(content_list[call'.index]), call'.threshold)
               /\ OnlyScoreAdded(content_list[call'.index],
                                 content_list'[call'.index])
               /\ \A j \in 1..Len(content_list) :
                      j # call'.index => content_list'[j] = content_list[j]
        /\ (cpc = "input" /\ cpc' = "filtered") =>
               /\ Len(content_list') = Len(content_list)
               /\ \A i \in 1..Len(content_list) :
                      /\ "canadian_score" \in DOMAIN content_list'[i]
                      /\ OnlyScoreAdded(content_list[i], content_list'[i])
      ]_vars

\* C11 witness: is_canadian returned False and the score is on the record.
C11_Witness ==
    /\ cpc = "classified"
    /\ ~call.result
    /\ "canadian_score" \in DOMAIN content_list[call.index]
    /\ FLt(content_list[call.index].canadian_score, call.threshold)

\* C12: filter_by_subreddit always includes a post whose subreddit, compared
\* without regard to case, is one of the Canadian subreddits, and sets its
\* canadian_score to exactly 1.0, whatever its text would score.
C12_CanadianSubredditAlwaysIncluded ==
    BySubreddit =>
        \A i \in 1..Len(content_list) :
            ("subreddit" \in DOMAIN content_list[i]
             /\ LowerText(content_list[i].subreddit) \in canadian_subreddits)
            => /\ Included(i)
               /\ content_list[i].canadian_score = D_1_0

\* C12 witness: a post of r/Toronto whose text scores 0.0 was included with 1.0.
C12_Witness ==
    /\ BySubreddit
    /\ \E j \in 1..Len(canadian_content) :
           /\ Get(canadian_content[j], "subreddit", <<>>) = SUB_Toronto
           /\ TextScore(canadian_content[j]) = FZero
           /\ canadian_content[j].canadian_score = D_1_0

\* C13: a post outside the Canadian subreddits is included exactly when its
\* text score is >= 0.15 if its subreddit is a pet subreddit, and >= 0.3
\* otherwise (a post without a subreddit too); the tier depends on the
\* subreddit name alone.
C13_TierBySubredditName ==
    BySubreddit =>
        \A i \in 1..Len(content_list) :
            LowerText(Get(content_list[i], "subreddit", <<>>)) \notin canadian_subreddits
            => /\ content_list[i].canadian_score = TextScore(content_list[i])
               /\ Included(i)
                  <=> FGe(TextScore(content_list[i]),
                          IF LowerText(Get(content_list[i], "subreddit", <<>>))
                                 \in pet_subreddits
                          THEN D_0_15 ELSE D_0_3)

\* C13 witness: of two posts with the same text score 0.15, the one of a pet
\* subreddit was included and the other one, whose title names dogs, was not;
\* a post without a subreddit was included.
C13_Witness ==
    /\ BySubreddit
    /\ \E i, j, k \in 1..Len(content_list) :
           /\ Get(content_list[i], "subreddit", <<>>) = SUB_Dogs
           /\ content_list[i].canadian_score = D_0_15
           /\ Included(i)
           /\ Get(content_list[j], "subreddit", <<>>) = SUB_AskReddit
           /\ content_list[j].canadian_score = D_0_15
           /\ ~Included(j)
           /\ "subreddit" \notin DOMAIN content_list[k]
           /\ Included(k)

(***************************************************************************)
(* CanadianFilter.get_filter_statistics: properties.                       *)
(***************************************************************************)
Counted == cpc = "counted" /\ call.op = "get_filter_statistics"

\* C14: for every list that is not empty, get_filter_statistics puts each
\* item in exactly one band by its canadian_score (high if >= 0.7, medium
\* if 0.3 <= score < 0.7, low if < 0.3, an item without a score counting as
\* 0.0), so that the three band counts add up to total_items, and
\* min_score <= avg_score <= max_score.
C14_BandsAndMeanWithinRange ==
    (Counted /\ call.arg # <<>>) =>
        /\ filter_stats.total_items = Len(call.arg)
        /\ filter_stats.high_relevance =
               Cardinality({i \in 1..Len(call.arg) :
                   FGe(Get(call.arg[i], "canadian_score", FZero), D_0_7)})
        /\ filter_stats.low_relevance =
               Cardinality({i \in 1..Len(call.arg) :
                   FLt(Get(call.arg[i], "canadian_score", FZero), D_0_3)})
        /\ filter_stats.high_relevance + filter_stats.medium_relevance
               + filter_stats.low_relevance = filter_stats.total_items
        /\ FLe(filter_stats.min_score, filter_stats.avg_score)
        /\ FLe(filter_stats.avg_score, filter_stats.max_score)

Reports(stats, key, value) == key \in DOMAIN stats /\ stats[key] = value

\* C15: on an empty list get_filter_statistics and get_ranking_statistics
\* report a zero for everything they report on a list that is not empty:
\* count, mean, min and max are 0, the three relevance band counts of the
\* filter are 0 and the reddit and news counts of the ranker are 0.
C15_EmptyStatisticsAllZero ==
    /\ (Counted /\ call.arg = <<>>) =>
           /\ Reports(filter_stats, "total_items", 0)
           /\ Reports(filter_stats, "avg_score", FZero)
           /\ Reports(filter_stats, "min_score", FZero)
           /\ Reports(filter_stats, "max_score", FZero)
           /\ Reports(filter_stats, "high_relevance", 0)
           /\ Reports(filter_stats, "medium_relevance", 0)
           /\ Reports(filter_stats, "low_relevance", 0)
    /\ (rpc = "counted" /\ ranked_content = <<>>) =>
           /\ Reports(ranking_stats, "total_items", 0)
           /\ Reports(ranking_stats, "avg_score", FZero)
           /\ Reports(ranking_stats, "min_score", 0)
           /\ Reports(ranking_stats, "max_score", 0)
           /\ Reports(ranking_stats, "reddit_items", 0)
           /\ Reports(ranking_stats, "news_items", 0)

(***************************************************************************)
(* ContentRanker.calculate_reddit_score and calculate_news_score, called   *)
(* on one item.                                                            *)
(***************************************************************************)
\* upvote scores (Reddit reports a negative one for a downvoted post) and
\* comment counts
PostScores == {-5, 0, 1, 10, 500}
PostComments == {0, 2, 100}

\* ages on both sides of the bucket limits, in seconds
Ages ==
    {3 * HOUR, 6 * HOUR - 1, 6 * HOUR, 12 * HOUR - 1, 12 * HOUR,
     24 * HOUR - 1, 24 * HOUR, 30 * HOUR}

\* the values of created_utc: a timestamp, 0, None, a string
CreatedValues == {Num(Now - age) : age \in Ages} \cup {Num(0), PyNone, PyStr}

\* the values of canadian_score
Relevances == {FZero, D_0_3, D_0_5, D_1_0}

\* a dict with or without each of the optional keys
WithOptional(dicts, key, values) ==
    dicts \cup {Put(d, key, v) : d \in dicts, v \in values}

PostDomain ==
    WithOptional(
        WithOptional({[score |-> s, num_comments |-> c] :
                          s \in PostScores, c \in PostComments},
                     "canadian_score", Relevances),
        "created_utc", CreatedValues)

S_cbc_lower == <<"c","b","c">>

\* the values of 'published'
PublishedValues ==
    {Iso(Now - age, 0) : age \in Ages}
        \cup {IsoNaive(Now - 7 * HOUR), IsoNaive(Now - 25 * HOUR),
              Iso(Now - 10 * HOUR, -5 * HOUR), Iso(Now + 1 * HOUR, 2 * HOUR),
              [form |-> "empty"], [form |-> "invalid"], [form |-> "not_str"]}

ArticleDomain ==
    WithOptional(
        WithOptional(
            WithOptional({[title |-> W_bacon]},
                         "source", {S_CBCNews, S_CTV, S_PetBlog, S_cbc_lower}),
            "canadian_score", Relevances),
        "published", PublishedValues)

InitScore ==
    /\ \/ scored \in PostDomain /\ spc = "post"
       \/ scored \in ArticleDomain /\ spc = "article"
    /\ trend = 0
    /\ FilterIdle
    /\ RankerIdle
    /\ ContentIdle
    /\ ToolsIdle

\* trend = ranker.calculate_reddit_score(scored)
CalculateRedditScore ==
    /\ spc = "post"
    /\ IF RedditScoreRaises(scored)
       THEN /\ spc' = "reddit_raised"
            /\ UNCHANGED trend
       ELSE /\ spc' = "reddit_returned"
            /\ trend' = calculate_reddit_score(scored)
    /\ UNCHANGED scored
    /\ UNCHANGED <<filterVars, rankerVars, contentVars, toolVars>>

\* trend = ranker.calculate_news_score(scored)
CalculateNewsScore ==
    /\ spc = "article"
    /\ spc' = "news_returned"
    /\ trend' = calculate_news_score(scored)
    /\ UNCHANGED scored
    /\ UNCHANGED <<filterVars, rankerVars, contentVars, toolVars>>

NextScore ==
    \/ CalculateRedditScore
    \/ CalculateNewsScore

SpecScore == InitScore /\ [][NextScore]_vars

(***************************************************************************)
(* calculate_reddit_score and calculate_news_score: properties.            *)
(***************************************************************************)
\* log10(max(engagement, 1)) * time_multiplier * canadian_boost, rounded
RedditScoreAt(post, time_multiplier) ==
    FRound3(FMul(FMul(Log10(FlooredEngagement(Engagement(post))), time_multiplier),
                 CanadianBoost(post)))

\* 5.0 * time_multiplier * source_boost * canadian_boost, rounded
NewsScoreAt(article, time_multiplier) ==
    FRound3(FMul(FMul(FMul(D_5_0, time_multiplier), SourceBoost(article)),
                 CanadianBoost(article)))

\* the post carries a timestamp: a number above 0
Timestamped(post) ==
    /\ "created_utc" \in DOMAIN post
    /\ post.created_utc.type = "number"
    /\ post.created_utc.value > 0

\* the multiplier the age buckets give: 1.0 under 6 hours, 0.8 from 6 to
\* under 12, 0.5 from 12 to under 24, 0.2 from 24 hours on
BucketOfAge(age_s) ==
    CASE age_s < 6 * HOUR -> D_1_0
      [] age_s >= 6 * HOUR /\ age_s < 12 * HOUR -> D_0_8
      [] age_s >= 12 * HOUR /\ age_s < 24 * HOUR -> D_0_5
      [] age_s >= 24 * HOUR -> D_0_2

\* C16: calculate_reddit_score multiplies by 1.0 when the post is less than
\* 6 hours old, by 0.8 from 6 to under 12 hours, by 0.5 from 12 to under 24
\* hours and by 0.2 from 24 hours on; a post of exactly 6, 12 or 24 hours
\* takes the multiplier of the older bucket.
C16_RedditTimeBuckets ==
    (spc = "reddit_returned" /\ Timestamped(scored)) =>
        trend = RedditScoreAt(scored, BucketOfAge(Now - scored.created_utc.value))

\* ten upvotes, exactly 6 hours old: 1.0 * 0.8
C16_Witness ==
    /\ spc = "reddit_returned"
    /\ Timestamped(scored)
    /\ Now - scored.created_utc.value = 6 * HOUR
    /\ Engagement(scored) = 10
    /\ "canadian_score" \notin DOMAIN scored
    /\ trend = 800

\* C17: calculate_reddit_score never raises on a missing or malformed
\* timestamp: when created_utc is absent, zero, None or not a number, the
\* post is scored as 999 hours old (multiplier 0.2) and a score is returned.
C17_BadTimestampScoredAsOld ==
    (spc \in {"reddit_returned", "reddit_raised"} /\ ~Timestamped(scored)) =>
        /\ spc = "reddit_returned"
        /\ trend = RedditScoreAt(scored, D_0_2)

\* C18: calculate_news_score never raises on a missing or unparseable
\* 'published': absent, empty, not a string or not valid ISO-8601, the
\* article is scored as published now (multiplier 1.0); a timestamp that
\* parses and names no zone is read as UTC.
C18_BadDateScoredAsNow ==
    (spc = "news_returned") =>
        /\ Get(scored, "published", [form |-> "empty"]).form # "iso" =>
               trend = NewsScoreAt(scored, D_1_0)
        /\ ("published" \in DOMAIN scored /\ scored.published.form = "iso"
                /\ ~scored.published.aware) =>
               trend = NewsScoreAt(scored, NewsTimeMultiplier(Now - scored.published.wall))

\* a string that does not parse, a major outlet, relevance 0.5: 5 * 1.3 * 1.25
C18_Witness ==
    /\ spc = "news_returned"
    /\ "published" \in DOMAIN scored
    /\ scored.published.form = "invalid"
    /\ Get(scored, "source", <<>>) = S_CBCNews
    /\ Get(scored, "canadian_score", FZero) = D_0_5
    /\ trend = 8125

\* name occurs somewhere in source
NamesOutlet(source, name) ==
    \E i \in 0..(Len(source) - Len(name)) :
        SubSeq(source, i + 1, i + Len(name)) = name

\* the relevance as a whole number of hundredths
Hundredths(relevance) == CHOOSE h \in 0..100 : FromRatio(h, 100) = relevance

\* 4000 times 5.0 * time_multiplier * source_boost * (1 + 0.5 * relevance),
\* computed exactly
NewsScoreTimes4000(age_s, source, relevance) ==
    (CASE age_s < 6 * HOUR -> 10
       [] age_s >= 6 * HOUR /\ age_s < 12 * HOUR -> 7
       [] age_s >= 12 * HOUR /\ age_s < 24 * HOUR -> 4
       [] age_s >= 24 * HOUR -> 1)
    * (IF \E k \in 1..Len(MAJOR_SOURCES) : NamesOutlet(source, MAJOR_SOURCES[k])
       THEN 13 ELSE 10)
    * (200 + Hundredths(relevance))

\* C19: calculate_news_score returns 5.0 * time_multiplier * source_boost *
\* (1.0 + 0.5 * canadian_score) rounded to 3 decimals (a thousandth nearest
\* to the exact product), with time_multiplier 1.0 / 0.7 / 0.4 / 0.1 for an
\* age under 6 / under 12 / under 24 hours / beyond, and source_boost 1.3
\* when the source contains a listed outlet name, 1.0 otherwise; a listed
\* source aged 30 hours with relevance 1.0 scores 0.975, and every score is
\* in [0.5, 9.75].
C19_NewsScoreFormula ==
    (spc = "news_returned") =>
        /\ 4 * trend - NewsScoreTimes4000(Now - PublishedAt(scored),
                                          Get(scored, "source", <<>>),
                                          Get(scored, "canadian_score", FZero))
               \in -2..2
        /\ trend >= 500
        /\ trend <= 9750
        /\ (/\ Now - PublishedAt(scored) = 30 * HOUR
            /\ Get(scored, "source", <<>>) = S_CBCNews
            /\ Get(scored, "canadian_score", FZero) = D_1_0) => trend = 975

\* 'CBC News', 30 hours old, relevance 1.0
C19_Witness ==
    /\ spc = "news_returned"
    /\ Now - PublishedAt(scored) = 30 * HOUR
    /\ Get(scored, "source", <<>>) = S_CBCNews
    /\ Get(scored, "canadian_score", FZero) = D_1_0
    /\ trend = 975

\* C20: calculate_reddit_score is never negative for a relevance in [0, 1],
\* and is exactly 0.0 whenever upvotes + 2 * comments <= 1 (no upvotes and
\* no comments, or a negative upvote score), whatever the age and the
\* relevance; so the trending_score that rank_all_content attaches to a
\* post, which is this value, is >= 0.
C20_RedditScoreNeverNegative ==
    (spc = "reddit_returned") =>
        /\ trend >= 0
        /\ Get(scored, "score", 0) + 2 * Get(scored, "num_comments", 0) <= 1 =>
               trend = 0

\* a downvoted post without comments, 3 hours old, relevance 1.0
C20_Witness ==
    /\ spc = "reddit_returned"
    /\ scored.score = -5
    /\ scored.num_comments = 0
    /\ Timestamped(scored)
    /\ Now - scored.created_utc.value = 3 * HOUR
    /\ Get(scored, "canadian_score", FZero) = D_1_0
    /\ trend = 0

(***************************************************************************)
(* CanadianFilter: the same call made twice on the same list.              *)
(***************************************************************************)
\* the longest list a call is repeated on
MaxRepeat == 2

\* what a call leaves behind: the list with its items changed in place, the
\* list returned (none for is_canadian) and the boolean returned (none for
\* the filters)
AfterIsCanadian(list, i, r) ==
    [list |-> [list EXCEPT ![i] = r.content], returned |-> <<>>,
     result |-> r.result]
AfterFilter(r) == [list |-> r.list, returned |-> r.returned, result |-> TRUE]

\* the call op(list, ...) with the item index and the threshold it takes
FilterCall(op, list, i, threshold) ==
    CASE op = "is_canadian" ->
             AfterIsCanadian(list, i, is_canadian(list[i], threshold))
      [] op = "filter_canadian_content" ->
             AfterFilter(filter_canadian_content(list, threshold))
      [] op = "filter_by_subreddit" ->
             AfterFilter(filter_by_subreddit(list))

InitRepeat ==
    /\ \E cs \in BoundedSeq(ContentDomain, MaxRepeat) :
           content_list = WithOids(cs, 0)
    /\ canadian_content = <<>>
    /\ call = NoCall
    /\ filter_stats = NoStats
    /\ cpc = "input"
    /\ FilterIdle
    /\ RankerIdle
    /\ ScoreIdle
    /\ ToolsIdle

\* the first call
CallOnce(op, i, threshold) ==
    /\ cpc = "input"
    /\ op = "is_canadian" => i \in 1..Len(content_list)
    /\ \E r \in {FilterCall(op, content_list, i, threshold)} :
           /\ content_list' = r.list
           /\ canadian_content' = r.returned
           /\ call' = [op |-> op, index |-> i, threshold |-> threshold,
                       result |-> r.result]
    /\ cpc' = "once"
    /\ UNCHANGED filter_stats
    /\ UNCHANGED <<filterVars, rankerVars, scoreVars, toolVars>>

\* the same call again, on the list as the first call left it
CallAgain ==
    /\ cpc = "once"
    /\ \E r \in {FilterCall(call.op, content_list, call.index, call.threshold)} :
           /\ content_list' = r.list
           /\ canadian_content' = r.returned
           /\ call' = [call EXCEPT !.result = r.result]
    /\ cpc' = "twice"
    /\ UNCHANGED filter_stats
    /\ UNCHANGED <<filterVars, rankerVars, scoreVars, toolVars>>

NextRepeat ==
    \/ \E i \in 1..MaxRepeat, th \in Thresholds : CallOnce("is_canadian", i, th)
    \/ \E th \in Thresholds : CallOnce("filter_canadian_content", 0, th)
    \/ CallOnce("filter_by_subreddit", 0, D_0_3)
    \/ CallAgain

SpecRepeat == InitRepeat /\ [][NextRepeat]_vars

\* C21: relevance scoring is deterministic and idempotent: a second call of
\* is_canadian, filter_canadian_content or filter_by_subreddit on the
\* records the first call left (their text unchanged) computes the same
\* canadian_score from the same text and takes the same decisions: the
\* records, the boolean returned and the list returned are those of the
\* first call.
C21_SecondCallSameResult ==
    [][ (cpc = "once" /\ cpc' = "twice") =>
            /\ content_list' = content_list
            /\ canadian_content' = canadian_content
            /\ call'.result = call.result ]_vars

\* filter_by_subreddit called twice on an r/Dogs post with one keyword and an
\* r/AskReddit post with one: the first kept, the second dropped, both times
C21_Witness ==
    /\ cpc = "twice"
    /\ call.op = "filter_by_subreddit"
    /\ Len(content_list) = 2
    /\ Len(canadian_content) = 1
    /\ content_list[1].canadian_score = D_0_15
    /\ content_list[2].canadian_score = D_0_15
    /\ canadian_content[1].oid = 1

(***************************************************************************)
(* ContentRanker.get_ranking_statistics, called on a list of scored items. *)
(***************************************************************************)
\* items as rank_all_content leaves them: scored and tagged
I_reddit == [trending_score |-> 2000, content_type |-> "reddit"]
I_news_old == [trending_score |-> 975, content_type |-> "news"]
I_news == [trending_score |-> 5000, content_type |-> "news"]

ScoredDomain == {I_reddit, I_news_old, I_news}

\* the longest list passed to get_ranking_statistics
MaxScored == 6

\* content is any list of scored items, in whatever order the caller holds
\* them
InitStats ==
    /\ \E cs \in BoundedSeq(ScoredDomain, MaxScored) :
           ranked_content = WithOids(cs, 0)
    /\ reddit_posts = <<>>
    /\ news_articles = <<>>
    /\ ranking_stats = NoStats
    /\ rpc = "scored"
    /\ FilterIdle
    /\ ContentIdle
    /\ ScoreIdle
    /\ ToolsIdle

\* stats = ranker.get_ranking_statistics(content)
StatisticsOfScored ==
    /\ rpc = "scored"
    /\ ranking_stats' = get_ranking_statistics(ranked_content)
    /\ rpc' = "counted"
    /\ UNCHANGED <<reddit_posts, news_articles, ranked_content>>
    /\ UNCHANGED <<filterVars, contentVars, scoreVars, toolVars>>

NextStats == StatisticsOfScored

SpecStats == InitStats /\ [][NextStats]_vars

\* the scores of the list are in descending order
Descending(scores) ==
    \A i \in 1..(Len(scores) - 1) : scores[i] >= scores[i + 1]

\* what the statistics say of a list of n >= 1 scored items: top_5_scores
\* are the first min(5, n) scores of the list and are in descending order,
\* total_items is n, max_score and min_score are the largest and the
\* smallest score of the list
StatisticsSayTopFive(content, stats) ==
    /\ Len(stats.top_5_scores) = Min(5, Len(content))
    /\ \A i \in 1..Len(stats.top_5_scores) :
           stats.top_5_scores[i] = content[i].trending_score
    /\ Descending(stats.top_5_scores)
    /\ stats.total_items = Len(content)
    /\ \A i \in 1..Len(content) :
           /\ content[i].trending_score <= stats.max_score
           /\ content[i].trending_score >= stats.min_score
    /\ \E i \in 1..Len(content) : content[i].trending_score = stats.max_score
    /\ \E i \in 1..Len(content) : content[i].trending_score = stats.min_score

\* C22 as stated: for any scored list of n >= 1 items, top_5_scores has
\* length min(5, n) and holds the first min(5, n) trending scores of the
\* list in descending sorted order, total_items is n, and max_score and
\* min_score are the largest and the smallest trending_score.
C22_TopFiveOfAnyScoredList ==
    (rpc = "counted" /\ ranked_content # <<>>) =>
        StatisticsSayTopFive(ranked_content, ranking_stats)

\* C22 amended: the same, for a list that is in descending order of
\* trending_score, as rank_all_content returns it.
C22_TopFiveOfRankedList ==
    (/\ rpc = "counted"
     /\ ranked_content # <<>>
     /\ Descending(TrendingScores(ranked_content))) =>
        StatisticsSayTopFive(ranked_content, ranking_stats)

\* six ranked items with three different scores: the last is left out
C22_Witness ==
    /\ rpc = "counted"
    /\ Len(ranked_content) = 6
    /\ Descending(TrendingScores(ranked_content))
    /\ ranked_content[1].trending_score = 5000
    /\ ranked_content[5].trending_score = 2000
    /\ ranked_content[6].trending_score = 975
    /\ ranking_stats.top_5_scores = SubSeq(TrendingScores(ranked_content), 1, 5)

(***************************************************************************)
(* scripts/run_pipeline.py: main and the steps it calls.                   *)
(***************************************************************************)
\* Config.MIN_TOTAL_ITEMS
MIN_TOTAL_ITEMS == 10
\* Config.MIN_SOURCES_SUCCESS
MIN_SOURCES_SUCCESS == 1

\* Config.NEWS_THRESHOLD of filter_content: threshold=0.2
NEWS_THRESHOLD == D_0_2

\* a post of r/Toronto as _extract_post_data returns it: 100 upvotes, 3 hours old
S_toronto ==
    [title |-> W_bacon, selftext |-> <<>>, subreddit |-> SUB_Toronto,
     score |-> 100, num_comments |-> 0, created_utc |-> Num(Now - 3 * HOUR)]
\* a post of r/dogs that names the RCMP, 13 hours old
S_dogs ==
    [title |-> W_rcmp, selftext |-> <<>>, subreddit |-> SUB_Dogs,
     score |-> 10, num_comments |-> 45, created_utc |-> Num(Now - 13 * HOUR)]
\* a post of r/dogs with nothing Canadian in it
S_plain ==
    [title |-> W_bacon, selftext |-> <<>>, subreddit |-> SUB_Dogs,
     score |-> 500, num_comments |-> 100, created_utc |-> Num(Now - 3 * HOUR)]
\* an article as _extract_article_data returns it, naming a province
S_article ==
    [title |-> W_bacon, summary |-> W_quebec,
     published |-> Iso(Now - 1 * HOUR, 0), source |-> S_PetBlog]
\* an article with nothing Canadian in it
S_article_plain ==
    [title |-> W_bacon, summary |-> W_bacon,
     published |-> Iso(Now - 1 * HOUR, 0), source |-> S_CBCNews]

\* one post short of MIN_TOTAL_ITEMS, all from r/Toronto
NearlyEnough == [i \in 1..(MIN_TOTAL_ITEMS - 1) |-> S_toronto]

\* What one request does: scrape_subreddit raises after its retries
\* (ok = FALSE) or returns the posts of the listing; scrape_rss_feed raises
\* or returns the articles of the feed, [] when the feed has no entries.
RequestFailed == [ok |-> FALSE, items |-> <<>>]
RequestGave(items) == [ok |-> TRUE, items |-> items]

SubredditOutcomes ==
    {RequestFailed, RequestGave(<<>>), RequestGave(NearlyEnough),
     RequestGave(<<S_dogs, S_plain>>)}
FeedOutcomes ==
    {RequestFailed, RequestGave(<<>>), RequestGave(<<S_article, S_article_plain>>)}

\* the subreddits and the feeds the pipeline asks
NumSubreddits == 2
NumFeeds == 2

\* all_posts.extend(posts) for every request that did not raise
RECURSIVE Gathered(_)
Gathered(outs) ==
    IF outs = <<>> THEN <<>>
    ELSE (IF Head(outs).ok THEN Head(outs).items ELSE <<>>) \o Gathered(Tail(outs))

\* scrape_reddit: posts = scraper.scrape_all(...), scraper.save_to_json(posts);
\* return posts, True.  scrape_all catches the exception of every subreddit,
\* so only save_to_json (saved = FALSE) reaches the except branch.
scrape_reddit(outs, saved) ==
    IF saved
    THEN [items |-> Gathered(outs), success |-> TRUE]
    ELSE [items |-> <<>>, success |-> FALSE]

\* scrape_news: the feeds that gave articles are gathered;
\* if all_articles: save and return all_articles, True; else return [], False
scrape_news(outs, saved) ==
    IF Gathered(outs) # <<>> /\ saved
    THEN [items |-> Gathered(outs), success |-> TRUE]
    ELSE [items |-> <<>>, success |-> FALSE]

\* sources_succeeded.append(name) or sources_failed.append(name)
Recorded(list, name, here) == IF here THEN Append(list, name) ELSE list

InitPipeline ==
    /\ requests = NoRequests
    /\ reddit_posts = <<>>
    /\ news_articles = <<>>
    /\ ranked_content = <<>>
    /\ ranking_stats = NoStats
    /\ rpc = "idle"
    /\ canadian_reddit = <<>>
    /\ canadian_news = <<>>
    /\ sources_succeeded = <<>>
    /\ sources_failed = <<>>
    /\ candidates_file = NoFile
    /\ main_ret = "none"
    /\ ppc = "start"
    /\ FilterIdle
    /\ ContentIdle
    /\ ScoreIdle
    /\ RetryIdle
    /\ AutoIdle
    /\ ReviewIdle

\* reddit_posts, reddit_success = scrape_reddit(logger), and the append
ScrapeReddit(outs, saved) ==
    /\ ppc = "start"
    /\ \E r \in {scrape_reddit(outs, saved)} :
           /\ reddit_posts' = WithOids(r.items, 0)
           /\ sources_succeeded' = Recorded(sources_succeeded, "reddit", r.success)
           /\ sources_failed' = Recorded(sources_failed, "reddit", ~r.success)
    /\ requests' = [requests EXCEPT !.reddit = outs]
    /\ ppc' = "news"
    /\ UNCHANGED <<news_articles, ranked_content, ranking_stats, rpc>>
    /\ UNCHANGED <<canadian_reddit, canadian_news, candidates_file, main_ret>>
    /\ UNCHANGED <<filterVars, contentVars, scoreVars, retryVars, autoVars, reviewVars>>

\* news_articles, news_success = scrape_news(logger), and the append
ScrapeNews(outs, saved) ==
    /\ ppc = "news"
    /\ \E r \in {scrape_news(outs, saved)} :
           /\ news_articles' = WithOids(r.items, Len(reddit_posts))
           /\ sources_succeeded' = Recorded(sources_succeeded, "news", r.success)
           /\ sources_failed' = Recorded(sources_failed, "news", ~r.success)
    /\ requests' = [requests EXCEPT !.news = outs]
    /\ ppc' = "scraped"
    /\ UNCHANGED <<reddit_posts, ranked_content, ranking_stats, rpc>>
    /\ UNCHANGED <<canadian_reddit, canadian_news, candidates_file, main_ret>>
    /\ UNCHANGED <<filterVars, contentVars, scoreVars, retryVars, autoVars, reviewVars>>

\* the gate on the items counted the other way round: passes below the minimum
TooFewItems_Reversed(total_canadian) == total_canadian > MIN_TOTAL_ITEMS

\* if total_canadian < Config.MIN_TOTAL_ITEMS: return False
TooFewItems(total_canadian) == total_canadian < MIN_TOTAL_ITEMS

\* if len(sources_succeeded) < Config.MIN_SOURCES_SUCCESS: return False
TooFewSources(succeeded) == Len(succeeded) < MIN_SOURCES_SUCCESS

\* the quality check on the sources
CheckSources ==
    /\ ppc = "scraped"
    /\ IF TooFewSources(sources_succeeded)
       THEN main_ret' = "False" /\ ppc' = "done"
       ELSE main_ret' = main_ret /\ ppc' = "filter"
    /\ UNCHANGED <<requests, canadian_reddit, canadian_news, sources_succeeded,
                   sources_failed, candidates_file>>
    /\ UNCHANGED <<filterVars, rankerVars, contentVars, scoreVars, retryVars, autoVars, reviewVars>>

\* canadian_reddit, canadian_news = filter_content(reddit_posts, news_articles),
\* and the check on total_canadian
FilterContent ==
    /\ ppc = "filter"
    /\ \E r \in {filter_by_subreddit(reddit_posts)} :
       \E n \in {filter_canadian_content(news_articles, NEWS_THRESHOLD)} :
           /\ reddit_posts' = r.list
           /\ canadian_reddit' = r.returned
           /\ news_articles' = n.list
           /\ canadian_news' = n.returned
           /\ IF TooFewItems(Len(r.returned) + Len(n.returned))
              THEN main_ret' = "False" /\ ppc' = "done"
              ELSE main_ret' = main_ret /\ ppc' = "rank"
    /\ UNCHANGED <<ranked_content, ranking_stats, rpc>>
    /\ UNCHANGED <<requests, sources_succeeded, sources_failed, candidates_file>>
    /\ UNCHANGED <<filterVars, contentVars, scoreVars, retryVars, autoVars, reviewVars>>

\* the unfiltered lists handed to the ranker
RankInput_Unfiltered(scraped, kept) == scraped

\* rank_content(canadian_reddit, canadian_news, logger)
RankInput(scraped, kept) == kept

\* ranked_content = rank_content(canadian_reddit, canadian_news, logger), and
\* if not ranked_content: return False
RankContent ==
    /\ ppc = "rank"
    /\ \E r \in {rank_all_content(RankInput(reddit_posts, canadian_reddit),
                                  RankInput(news_articles, canadian_news))} :
           /\ ranked_content' = r
           /\ IF r = <<>>
              THEN main_ret' = "False" /\ ppc' = "done"
              ELSE main_ret' = main_ret /\ ppc' = "save"
    /\ UNCHANGED <<reddit_posts, news_articles, ranking_stats, rpc>>
    /\ UNCHANGED <<requests, canadian_reddit, canadian_news, sources_succeeded,
                   sources_failed, candidates_file>>
    /\ UNCHANGED <<filterVars, contentVars, scoreVars, retryVars, autoVars, reviewVars>>

\* save_success = save_candidates(ranked_content, stats, logger): the file is
\* written unless open or json.dump raises; then return save_success
SaveCandidates(written) ==
    /\ ppc = "save"
    /\ candidates_file' = [called |-> TRUE, written |-> written,
                           content |-> ranked_content]
    /\ main_ret' = IF written THEN "True" ELSE "False"
    /\ ppc' = "done"
    /\ UNCHANGED <<requests, canadian_reddit, canadian_news, sources_succeeded,
                   sources_failed>>
    /\ UNCHANGED <<filterVars, rankerVars, contentVars, scoreVars, retryVars, autoVars, reviewVars>>

NextPipeline ==
    \/ \E outs \in [1..NumSubreddits -> SubredditOutcomes] :
       \E saved \in BOOLEAN : ScrapeReddit(outs, saved)
    \/ \E outs \in [1..NumFeeds -> FeedOutcomes] :
       \E saved \in BOOLEAN : ScrapeNews(outs, saved)
    \/ CheckSources
    \/ FilterContent
    \/ RankContent
    \/ \E written \in BOOLEAN : SaveCandidates(written)

SpecPipeline == InitPipeline /\ [][NextPipeline]_vars

\* the keys the filter and the ranker put on a record, taken off again
Scraped(item) ==
    [k \in DOMAIN item \ {"canadian_score", "trending_score", "content_type"}
        |-> item[k]]

\* the records of the two scrapes that the Canadian filter kept
PassedFilter == {Scraped(canadian_reddit[i]) : i \in 1..Len(canadian_reddit)}
                    \cup {Scraped(canadian_news[i]) : i \in 1..Len(canadian_news)}

ScrapedRecords ==
    {Scraped(reddit_posts[i]) : i \in 1..Len(reddit_posts)}
        \cup {Scraped(news_articles[i]) : i \in 1..Len(news_articles)}

\* C23: every record run_pipeline.main hands to save_candidates carries a
\* canadian_score within [0, 1], a trending_score and a content_type; the
\* records are in descending order of trending_score, and each of them is
\* one of the scraped records that passed the Canadian filter.
C23_CandidatesFilteredScoredSorted ==
    candidates_file.called =>
        /\ \A i \in 1..Len(candidates_file.content) :
               LET c == candidates_file.content[i]
               IN  /\ {"canadian_score", "trending_score", "content_type"}
                          \subseteq DOMAIN c
                   /\ FLe(FZero, c.canadian_score)
                   /\ FLe(c.canadian_score, D_1_0)
                   /\ c.content_type \in {"reddit", "news"}
                   /\ Scraped(c) \in PassedFilter
                   /\ Scraped(c) \in ScrapedRecords
        /\ Descending(TrendingScores(candidates_file.content))

\* the candidates were saved, and the filter had dropped scraped records of
\* both kinds before the ranking
C23_Witness ==
    /\ candidates_file.called
    /\ Len(candidates_file.content) >= MIN_TOTAL_ITEMS
    /\ Len(canadian_reddit) < Len(reddit_posts)
    /\ Len(canadian_news) < Len(news_articles)
    /\ \E i, j \in 1..Len(candidates_file.content) :
           candidates_file.content[i].trending_score
               > candidates_file.content[j].trending_score

\* the scrape retrieved data from at least one of its subreddits or feeds
Retrieved(outs) == \E i \in 1..Len(outs) : outs[i].ok /\ outs[i].items # <<>>

\* total_canadian, once filter_content has run
TotalCanadian == Len(canadian_reddit) + Len(canadian_news)

\* main went past the quality check on the sources and filtered
HasFiltered == ppc \in {"rank", "save"} \/ (ppc = "done" /\ ~TooFewSources(sources_succeeded))

\* C26: run_pipeline.main calls save_candidates, and returns True, only if
\* at least MIN_SOURCES_SUCCESS source types succeeded and at least
\* MIN_TOTAL_ITEMS items passed the filter (and, to return True, saving
\* succeeded); when either gate fails it returns False without ranking or
\* saving; the failure of one source type alone never aborts the run.
C26_GatesBeforeSaving ==
    /\ candidates_file.called =>
           /\ Len(sources_succeeded) >= MIN_SOURCES_SUCCESS
           /\ TotalCanadian >= MIN_TOTAL_ITEMS
    /\ main_ret = "True" =>
           /\ candidates_file.called
           /\ candidates_file.written
           /\ candidates_file.content = ranked_content
           /\ Retrieved(requests.reddit) \/ Retrieved(requests.news)
    /\ (ppc \in {"filter", "rank", "save", "done"}
            /\ Len(sources_succeeded) < MIN_SOURCES_SUCCESS) =>
           /\ main_ret = "False"
           /\ ranked_content = <<>>
           /\ ~candidates_file.called
           /\ canadian_reddit = <<>> /\ canadian_news = <<>>
    /\ (HasFiltered /\ TotalCanadian < MIN_TOTAL_ITEMS) =>
           /\ main_ret = "False"
           /\ ranked_content = <<>>
           /\ ~candidates_file.called
    /\ (ppc = "done" /\ Len(sources_failed) = 1 /\ TotalCanadian >= MIN_TOTAL_ITEMS) =>
           /\ candidates_file.called
           /\ main_ret = (IF candidates_file.written THEN "True" ELSE "False")

\* main returned True with one source type failed and exactly
\* MIN_TOTAL_ITEMS items kept
C26_Witness ==
    /\ main_ret = "True"
    /\ sources_failed = <<"news">>
    /\ TotalCanadian = MIN_TOTAL_ITEMS

EveryRequestFailed(outs) == \A i \in 1..Len(outs) : ~outs[i].ok

InList(list, name) == \E i \in 1..Len(list) : list[i] = name

\* C29: a source type is recorded in sources_succeeded only if its scrape
\* retrieved data from at least one subreddit or feed; when every subreddit
\* request fails 'reddit' is recorded in sources_failed, and when no feed
\* yields an article 'news' is recorded in sources_failed.
C29_SucceededOnlyWithData ==
    /\ ppc # "start" =>
           /\ InList(sources_succeeded, "reddit") => Retrieved(requests.reddit)
           /\ EveryRequestFailed(requests.reddit) => InList(sources_failed, "reddit")
    /\ ppc \notin {"start", "news"} =>
           /\ InList(sources_succeeded, "news") => Retrieved(requests.news)
           /\ ~Retrieved(requests.news) => InList(sources_failed, "news")

(***************************************************************************)
(* scrapers/base_scraper.py: the wrapper retry_on_failure builds.          *)
(***************************************************************************)
\* the largest max_retries a function is wrapped with
MaxRetries == 4

\* delay, in seconds
Delays == {1, 2, 5}

\* What one invocation of func does: it returns a value or raises.  The
\* wrapper catches Exception; KeyboardInterrupt derives from BaseException
\* only and passes through it.
ExceptionKinds == {"RequestException", "ValueError"}
FuncResults ==
    {[how |-> "returns", value |-> v] : v \in {"posts", "nothing"}}
        \cup {[how |-> "raises", kind |-> k] :
                 k \in ExceptionKinds \cup {"KeyboardInterrupt"}}

\* except Exception as e
Caught(result) == result.how = "raises" /\ result.kind \in ExceptionKinds

\* the exception an invocation raised: every raise makes its own object
Raised(result, n) == [kind |-> result.kind, attempt |-> n]

\* the first exception kept instead of the last one
Kept_First(last, e) == IF last = NoException THEN e ELSE last

\* last_exception = e
Kept(last, e) == e

\* if attempt < max_retries - 1
MoreAttempts(n, max) == n < max - 1

\* the waiting time grown by the delay each time, not doubled
SleepTime_Linear(d, n) == d * (n + 1)

\* sleep_time = delay * (2 ** attempt)
SleepTime(d, n) == d * (2 ^ n)

InitRetry ==
    /\ max_retries \in 1..MaxRetries
    /\ delay \in Delays
    /\ attempt = 0
    /\ last_exception = NoException
    /\ events = <<>>
    /\ outcome = NoOutcome
    /\ wpc = "loop"
    /\ FilterIdle
    /\ RankerIdle
    /\ ContentIdle
    /\ ScoreIdle
    /\ PipeIdle
    /\ AutoIdle
    /\ ReviewIdle

\* for attempt in range(max_retries): this turn was the last one
LoopEnds(n, max) == n + 1 >= max

\* one turn of the loop up to the sleep: return func(*args, **kwargs), the
\* except branch, and raise last_exception when the loop has run out
Invoke(result) ==
    /\ wpc = "loop"
    /\ attempt < max_retries
    /\ events' = Append(events, [call |-> "func", attempt |-> attempt, result |-> result])
    /\ IF result.how = "returns"
       THEN /\ outcome' = [how |-> "returned", value |-> result.value]
            /\ wpc' = "returned"
            /\ UNCHANGED last_exception
       ELSE IF ~Caught(result)
       THEN /\ outcome' = [how |-> "raised", exception |-> Raised(result, attempt)]
            /\ wpc' = "raised"
            /\ UNCHANGED last_exception
       ELSE \E e \in {Kept(last_exception, Raised(result, attempt))} :
            /\ last_exception' = e
            /\ IF MoreAttempts(attempt, max_retries)
               THEN wpc' = "sleep" /\ UNCHANGED outcome
               ELSE IF LoopEnds(attempt, max_retries)
               THEN /\ outcome' = [how |-> "raised", exception |-> e]
                    /\ wpc' = "raised"
               ELSE wpc' = "loop" /\ UNCHANGED outcome
    /\ attempt' = IF Caught(result) /\ ~MoreAttempts(attempt, max_retries)
                         /\ ~LoopEnds(attempt, max_retries)
                  THEN attempt + 1 ELSE attempt
    /\ UNCHANGED <<max_retries, delay>>
    /\ UNCHANGED <<filterVars, rankerVars, contentVars, scoreVars, pipeVars, autoVars, reviewVars>>

\* time.sleep(sleep_time), and the next turn of the loop; raise
\* last_exception when the loop has run out
Sleep ==
    /\ wpc = "sleep"
    /\ events' = Append(events, [call |-> "sleep", secs |-> SleepTime(delay, attempt)])
    /\ IF LoopEnds(attempt, max_retries)
       THEN /\ outcome' = [how |-> "raised", exception |-> last_exception]
            /\ wpc' = "raised"
            /\ UNCHANGED attempt
       ELSE /\ attempt' = attempt + 1
            /\ wpc' = "loop"
            /\ UNCHANGED outcome
    /\ UNCHANGED <<max_retries, delay, last_exception>>
    /\ UNCHANGED <<filterVars, rankerVars, contentVars, scoreVars, pipeVars, autoVars, reviewVars>>

NextRetry ==
    \/ \E result \in FuncResults : Invoke(result)
    \/ Sleep

SpecRetry == InitRetry /\ [][NextRetry]_vars

\* the invocations of func, in order
IsInvocation(e) == e.call = "func"
Invocations == SelectSeq(events, IsInvocation)

\* C24: the wrapped function is invoked at most max_retries times per call
\* of the wrapper; the wrapper returns the result of the first invocation
\* that does not raise and invokes no more; when the invocations are used
\* up it raises the exception of the last invocation.
C24_AtMostNInvocations ==
    /\ Len(Invocations) <= max_retries
    /\ \A k \in 1..(Len(Invocations) - 1) : Invocations[k].result.how = "raises"
    /\ wpc = "returned" =>
           /\ Invocations[Len(Invocations)].result.how = "returns"
           /\ outcome = [how |-> "returned",
                         value |-> Invocations[Len(Invocations)].result.value]
    /\ wpc = "raised" =>
           /\ Invocations[Len(Invocations)].result.how = "raises"
           /\ outcome = [how |-> "raised",
                         exception |-> [kind |-> Invocations[Len(Invocations)].result.kind,
                                        attempt |-> Len(Invocations) - 1]]
    /\ (Len(Invocations) = max_retries
            /\ Invocations[Len(Invocations)].result.how = "raises") => wpc = "raised"
    /\ (wpc = "raised" /\ Caught(Invocations[Len(Invocations)].result)) =>
           Len(Invocations) = max_retries

\* three invocations raised different exceptions and the last one came out
C24_Witness ==
    /\ wpc = "raised"
    /\ max_retries = 3
    /\ Len(Invocations) = 3
    /\ Invocations[1].result.kind = "ValueError"
    /\ Invocations[3].result.kind = "RequestException"

\* C25: after the i-th failed attempt (i = 0, 1, ...) that is not the last
\* allowed one the wrapper sleeps delay * 2^i seconds before the next
\* invocation; it never sleeps after the last allowed attempt or after a
\* success, and every invocation after the first is preceded by exactly
\* one sleep.
C25_BackoffBetweenAttempts ==
    /\ \A k \in 1..Len(events) :
           /\ events[k].call = "sleep" =>
                  /\ k > 1
                  /\ events[k - 1].call = "func"
                  /\ Caught(events[k - 1].result)
                  /\ events[k - 1].attempt < max_retries - 1
                  /\ events[k].secs = delay * (2 ^ events[k - 1].attempt)
           /\ (events[k].call = "func" /\ k > 1) => events[k - 1].call = "sleep"
           /\ events[k].call = "func" =>
                  events[k].attempt
                      = Cardinality({j \in 1..(k - 1) : events[j].call = "func"})
           /\ (events[k].call = "func" /\ Caught(events[k].result)
                   /\ events[k].attempt < max_retries - 1) =>
                  IF k < Len(events) THEN events[k + 1].call = "sleep"
                  ELSE wpc = "sleep"
    /\ wpc \in {"returned", "raised"} => events[Len(events)].call = "func"

\* three sleeps, of 5, 10 and 20 seconds, then the last attempt
C25_Witness ==
    /\ wpc \in {"returned", "raised"}
    /\ delay = 5
    /\ Len(Invocations) = 4
    /\ Len(events) = 7
    /\ events[2] = [call |-> "sleep", secs |-> 5]
    /\ events[4] = [call |-> "sleep", secs |-> 10]
    /\ events[6] = [call |-> "sleep", secs |-> 20]

(***************************************************************************)
(* scripts/generate_site.py: AutomatedPipeline.                            *)
(***************************************************************************)
\* an article naming a city and a province
S_article_city ==
    [title |-> W_Toronto, summary |-> W_quebec,
     published |-> Iso(Now - 13 * HOUR, 0), source |-> S_CBCNews]

\* the longest lists scrape_content returns
MaxScraped == 2

\* filter_content: threshold=0.45
AUTO_NEWS_THRESHOLD == D_0_45

\* [c for c in content if c.get('content_type') == kind]
RECURSIVE OfType(_, _)
OfType(content, kind) ==
    IF content = <<>> THEN <<>>
    ELSE (IF Get(Head(content), "content_type", "none") = kind
          THEN <<Head(content)>> ELSE <<>>) \o OfType(Tail(content), kind)

\* AutomatedPipeline.rank_content(content)
auto_rank_content(content) ==
    rank_all_content(OfType(content, "reddit"), OfType(content, "news"))

\* quality_items: c.get('canadian_score', 0) >= 0.45
MIN_QUALITY == D_0_45
\* approved = quality_items[:15]
APPROVE_LIMIT == 15

RECURSIVE QualityItems(_, _)
QualityItems(candidates, minimum) ==
    IF candidates = <<>> THEN <<>>
    ELSE (IF FGe(Get(Head(candidates), "canadian_score", FZero), minimum)
          THEN <<Head(candidates)>> ELSE <<>>)
         \o QualityItems(Tail(candidates), minimum)

FirstItems(items, n) == SubSeq(items, 1, Min(Len(items), n))

\* AutomatedPipeline.auto_approve(candidates)
auto_approve(candidates) ==
    FirstItems(QualityItems(candidates, MIN_QUALITY), APPROVE_LIMIT)

\* reddit_posts, news_articles = self.scrape_content()
InitAuto ==
    /\ \E rs \in BoundedSeq({S_toronto, S_dogs, S_plain}, MaxScraped) :
       \E ns \in BoundedSeq({S_article, S_article_city, S_article_plain}, MaxScraped) :
           /\ reddit_posts = WithOids(rs, 0)
           /\ news_articles = WithOids(ns, Len(rs))
    /\ ranked_content = <<>>
    /\ ranking_stats = NoStats
    /\ rpc = "idle"
    /\ content_list = <<>>
    /\ canadian_content = <<>>
    /\ call = NoCall
    /\ filter_stats = NoStats
    /\ cpc = "idle"
    /\ approved_content = <<>>
    /\ gpc = "scraped"
    /\ FilterIdle
    /\ ScoreIdle
    /\ RetryIdle
    /\ PipeIdle
    /\ ReviewIdle

\* canadian_content = self.filter_content(reddit_posts, news_articles)
AutoFilterContent ==
    /\ gpc = "scraped"
    /\ \E r \in {filter_by_subreddit(reddit_posts)} :
       \E n \in {filter_canadian_content(news_articles, AUTO_NEWS_THRESHOLD)} :
           /\ reddit_posts' = r.list
           /\ news_articles' = n.list
           /\ canadian_content' = r.returned \o n.returned
    /\ gpc' = "filtered"
    /\ UNCHANGED <<ranked_content, ranking_stats, rpc>>
    /\ UNCHANGED <<content_list, call, filter_stats, cpc>>
    /\ UNCHANGED approved_content
    /\ UNCHANGED <<filterVars, scoreVars, retryVars, pipeVars, reviewVars>>

\* ranked_content = self.rank_content(canadian_content)
AutoRankContent ==
    /\ gpc = "filtered"
    /\ ranked_content' = auto_rank_content(canadian_content)
    /\ gpc' = "ranked"
    /\ UNCHANGED <<reddit_posts, news_articles, ranking_stats, rpc>>
    /\ UNCHANGED approved_content
    /\ UNCHANGED <<filterVars, contentVars, scoreVars, retryVars, pipeVars, reviewVars>>

\* approved_content = self.auto_approve(ranked_content)
AutoApprove ==
    /\ gpc = "ranked"
    /\ approved_content' = auto_approve(ranked_content)
    /\ gpc' = "approved"
    /\ UNCHANGED <<filterVars, rankerVars, contentVars, scoreVars, retryVars,
                   pipeVars, reviewVars>>

NextAuto ==
    \/ AutoFilterContent
    \/ AutoRankContent
    \/ AutoApprove

SpecAuto == InitAuto /\ [][NextAuto]_vars

\* the places at which an item of this identity stands in a list
PlacesOf(list, oid) == {i \in 1..Len(list) : list[i].oid = oid}

\* C28: in AutomatedPipeline.run ranking loses no content: every item
\* filter_content returned appears exactly once in the list rank_content
\* returned, tagged 'reddit' or 'news' after the scraper it came from.
C28_RankingLosesNoContent ==
    gpc \in {"ranked", "approved"} =>
        \A i \in 1..Len(canadian_content) :
            /\ Cardinality(PlacesOf(ranked_content, canadian_content[i].oid)) = 1
            /\ \A j \in PlacesOf(ranked_content, canadian_content[i].oid) :
                   ranked_content[j].content_type
                       = (IF canadian_content[i].oid <= Len(reddit_posts)
                          THEN "reddit" ELSE "news")

(***************************************************************************)
(* AutomatedPipeline.auto_approve on a ranked list of candidates.          *)
(***************************************************************************)
\* the longest list of candidates
MaxCandidates == 17

\* the Canadian scores the candidates carry
QualityScores == {D_0_1, D_0_15, D_0_3, D_0_45, D_1_0}

\* the i-th candidate of a ranked list of n
Candidate(i, relevance) ==
    [oid |-> i, trending_score |-> 100 * (MaxCandidates + 1 - i),
     content_type |-> IF i % 2 = 0 THEN "news" ELSE "reddit",
     canadian_score |-> relevance]

InitApprove ==
    /\ \E n \in 0..MaxCandidates :
       \E even, odd \in QualityScores :
           ranked_content = [i \in 1..n |-> Candidate(i, IF i % 2 = 0 THEN even ELSE odd)]
    /\ reddit_posts = <<>>
    /\ news_articles = <<>>
    /\ ranking_stats = NoStats
    /\ rpc = "idle"
    /\ approved_content = <<>>
    /\ gpc = "ranked"
    /\ FilterIdle
    /\ ContentIdle
    /\ ScoreIdle
    /\ RetryIdle
    /\ PipeIdle
    /\ ReviewIdle

NextApprove == AutoApprove

SpecApprove == InitApprove /\ [][NextApprove]_vars

\* the minimum Canadian score the docstring of auto_approve names
DOCUMENTED_MIN_QUALITY == D_0_15

\* C27: auto_approve returns at most 15 items, in ranked order: the first
\* 15 candidates whose canadian_score is >= 0.15.
C27_FirstFifteenAboveMinimum ==
    gpc = "approved" =>
        /\ Len(approved_content) <= APPROVE_LIMIT
        /\ approved_content
               = FirstItems(QualityItems(ranked_content, DOCUMENTED_MIN_QUALITY),
                            APPROVE_LIMIT)

(***************************************************************************)
(* scripts/review_content.py: ContentReviewer.review_interactive and main. *)
(***************************************************************************)
\* the longest candidates file reviewed
MaxReview == 3

\* the answers get_user_decision returns
Decisions == {"y", "n", "s", "q"}

\* the list returned on 'q' being the items approved so far
QuitValue_Approved(approved) == approved

\* elif decision == 'q': return []
QuitValue(approved) == <<>>

\* the candidates file main loaded, self.approved_items = []
InitReview ==
    /\ \E n \in 0..MaxReview :
           content_items = [i \in 1..n |-> Candidate(i, D_1_0)]
    /\ index = 0
    /\ decisions = <<>>
    /\ approved_items = <<>>
    /\ review_ret = NotReturned
    /\ approved_file = NoFile
    /\ html = FALSE
    /\ vpc = "review"
    /\ FilterIdle
    /\ RankerIdle
    /\ ContentIdle
    /\ ScoreIdle
    /\ RetryIdle
    /\ PipeIdle
    /\ AutoIdle

\* review_interactive with nothing to review: the loop runs over no item
NothingToReview ==
    /\ vpc = "review"
    /\ content_items = <<>>
    /\ review_ret' = [returned |-> TRUE, value |-> approved_items]
    /\ vpc' = "returned"
    /\ UNCHANGED <<content_items, index, decisions, approved_items, approved_file, html>>
    /\ UNCHANGED <<filterVars, rankerVars, contentVars, scoreVars, retryVars,
                   pipeVars, autoVars>>

\* one turn of the loop of review_interactive: the item at index is shown
\* and decision = self.get_user_decision()
Decide(decision) ==
    /\ vpc = "review"
    /\ index < Len(content_items)
    /\ decisions' = Append(decisions, decision)
    /\ \E approved \in {IF decision = "y"
                       THEN Append(approved_items, content_items[index + 1])
                       ELSE approved_items} :
           /\ approved_items' = approved
           /\ IF decision = "q"
              THEN review_ret' = [returned |-> TRUE, value |-> QuitValue(approved)]
                   /\ vpc' = "returned" /\ UNCHANGED index
              ELSE IF decision = "s" \/ index + 1 = Len(content_items)
              THEN review_ret' = [returned |-> TRUE, value |-> approved]
                   /\ vpc' = "returned"
                   /\ index' = (IF decision = "s" THEN index ELSE index + 1)
              ELSE index' = index + 1 /\ UNCHANGED <<review_ret, vpc>>
    /\ UNCHANGED <<content_items, approved_file, html>>
    /\ UNCHANGED <<filterVars, rankerVars, contentVars, scoreVars, retryVars,
                   pipeVars, autoVars>>

\* main after the review: if not approved_items: return 0; else
\* reviewer.save_approved(approved_file), which writes self.approved_items
\* unless the write raises
SaveApproved(written) ==
    /\ vpc = "returned"
    /\ IF review_ret.value = <<>>
       THEN vpc' = "done" /\ UNCHANGED approved_file
       ELSE IF approved_items = <<>>
       THEN vpc' = "done" /\ UNCHANGED approved_file
       ELSE /\ approved_file' = [called |-> TRUE, written |-> written,
                                 content |-> approved_items]
            /\ vpc' = (IF written THEN "saved" ELSE "done")
    /\ UNCHANGED <<content_items, index, decisions, approved_items, review_ret, html>>
    /\ UNCHANGED <<filterVars, rankerVars, contentVars, scoreVars, retryVars,
                   pipeVars, autoVars>>

\* generate = input(...); if generate == 'y': reviewer.generate_html(...)
GenerateHtml(generate) ==
    /\ vpc = "saved"
    /\ html' = (generate = "y")
    /\ vpc' = "done"
    /\ UNCHANGED <<content_items, index, decisions, approved_items, review_ret,
                   approved_file>>
    /\ UNCHANGED <<filterVars, rankerVars, contentVars, scoreVars, retryVars,
                   pipeVars, autoVars>>

NextReview ==
    \/ NothingToReview
    \/ \E decision \in Decisions : Decide(decision)
    \/ \E written \in BOOLEAN : SaveApproved(written)
    \/ \E generate \in {"y", "n"} : GenerateHtml(generate)

SpecReview == InitReview /\ [][NextReview]_vars

\* the candidates answered 'y', in file order
RECURSIVE AnsweredYes(_, _)
AnsweredYes(items, answers) ==
    IF answers = <<>> \/ items = <<>> THEN <<>>
    ELSE (IF Head(answers) = "y" THEN <<Head(items)>> ELSE <<>>)
         \o AnsweredYes(Tail(items), Tail(answers))

Answered(answer) == \E k \in 1..Len(decisions) : decisions[k] = answer

\* C30: review_interactive presents the candidates in file order and
\* returns exactly those answered 'y', in that order, among the ones
\* presented before the first 's' or the end of the list; as soon as 'q'
\* is entered it returns the empty list, and main then neither writes the
\* approved file nor generates HTML.
C30_ApprovedAreThoseAnsweredYes ==
    /\ Len(decisions) <= Len(content_items)
    /\ \A k \in 1..(Len(decisions) - 1) : decisions[k] \in {"y", "n"}
    /\ (Len(decisions) > 0 /\ decisions[Len(decisions)] \in {"s", "q"}) =>
           review_ret.returned
    /\ Len(decisions) = Len(content_items) => (review_ret.returned \/ vpc = "review")
    /\ (vpc = "review" /\ content_items # <<>>) =>
           ~review_ret.returned /\ index = Len(decisions)
    /\ review_ret.returned =>
           /\ Len(decisions) = Len(content_items) \/ Answered("s") \/ Answered("q")
           /\ review_ret.value
                  = (IF Answered("q") THEN <<>>
                     ELSE AnsweredYes(content_items, decisions))
    /\ Answered("q") => ~approved_file.called /\ ~html
    /\ approved_file.called => approved_file.content = review_ret.value

\* two candidates were approved before 'q' was entered at the third, and
\* main is through
C30_Witness ==
    /\ decisions = <<"y", "y", "q">>
    /\ vpc = "done"
    /\ review_ret.returned

=============================================================================
